---- MODULE Spec2Model ----
(***************************************************************************)
(* Bank-notification ingestion pipeline of BudgetApp                       *)
(* (app/api/process-transaction/route.ts, latest variant).                 *)
(*                                                                         *)
(* Text is modelled as a sequence of lexemes: a lexeme is a word, a        *)
(* number, a date, a punctuation mark or ONE whitespace character (" ").   *)
(* Regular expressions are translated lexeme by lexeme; the character      *)
(* classes of a lexeme (digits, currency code, ...) are given by the       *)
(* vocabulary sets below.  Arabic words are written as ASCII lexemes       *)
(* prefixed "ar_".                                                         *)
(*                                                                         *)
(* Amounts are integers in thousandths (150.00 is 150000); FX rates are    *)
(* integers in hundredths (50.25 is 5025).                                 *)
(***************************************************************************)
EXTENDS Integers, Sequences, FiniteSets, TLC

----------------------------------------------------------------------------
(* Optional values: null is the empty tuple, a present value a 1-tuple.    *)

None == <<>>

Some(x) == <<x>>

IsSome(o) == Len(o) = 1

Get(o) == o[1]

\* JavaScript  a ?? b
Coalesce(a, b) == IF IsSome(a) THEN a ELSE b

----------------------------------------------------------------------------
(* Vocabulary                                                              *)

SP == " "

\* String.prototype.toLowerCase on the vocabulary
Lower(w) ==
  CASE w = "Transfer"   -> "transfer"
    [] w = "TRANSFER"   -> "transfer"
    [] w = "Transfers"  -> "transfers"
    [] w = "IBAN"       -> "iban"
    [] w = "ATM"        -> "atm"
    [] w = "Atmosphere" -> "atmosphere"
    [] w = "AT"         -> "at"
    [] w = "On"         -> "on"
    [] w = "Charged"    -> "charged"
    [] w = "Wallet"     -> "wallet"
    [] w = "Shipnow"    -> "shipnow"
    [] w = "EGP"        -> "egp"
    [] w = "USD"        -> "usd"
    [] w = "EUR"        -> "eur"
    [] w = "PM"         -> "pm"
    [] w = "AM"         -> "am"
    [] OTHER            -> w

\* String.prototype.toUpperCase on the currency tokens
Upper(w) ==
  CASE w = "egp" -> "EGP"
    [] w = "usd" -> "USD"
    [] w = "eur" -> "EUR"
    [] OTHER     -> w

\* lexemes matching (EGP|USD|EUR|€) under the i flag
CurrencyLex == {"EGP", "USD", "EUR", "€", "egp", "usd", "eur"}

\* lexemes matching [\d,]+(?:\.\d+)? as a whole
NumberLex == {"150.00", "20.00", "5000.00", "1,500.00", "0.00", "12.345", "12.35",
              "0.10", "123"}

\* Number(s.replace(/,/g, '')) of a number lexeme, in thousandths
NumberValue(w) ==
  CASE w = "150.00"   -> 150000
    [] w = "20.00"    -> 20000
    [] w = "5000.00"  -> 5000000
    [] w = "1,500.00" -> 1500000
    [] w = "0.00"     -> 0
    [] w = "12.345"   -> 12345
    [] w = "12.35"    -> 12350
    [] w = "0.10"     -> 100
    [] w = "123"      -> 123000

\* lexemes matching \d{1,2}[\/\-]\d{1,2}[\/\-]\d{2,4}\b
DateLex == {"21/12/25", "21/13/25", "32/12/25", "21-12-2025"}

\* day, month, raw year of a date lexeme
DateParts(w) ==
  CASE w = "21/12/25"   -> [d |-> 21, m |-> 12, y |-> 25]
    [] w = "21/13/25"   -> [d |-> 21, m |-> 13, y |-> 25]
    [] w = "32/12/25"   -> [d |-> 32, m |-> 12, y |-> 25]
    [] w = "21-12-2025" -> [d |-> 21, m |-> 12, y |-> 2025]

\* lexemes matching \d{1,2}:\d{2}
TimeLex == {"14:03", "12:30", "11:15", "24:00", "10:60"}

\* hour, minute of a time lexeme
TimeParts(w) ==
  CASE w = "14:03" -> [h |-> 14, mi |-> 3]
    [] w = "12:30" -> [h |-> 12, mi |-> 30]
    [] w = "11:15" -> [h |-> 11, mi |-> 15]
    [] w = "24:00" -> [h |-> 24, mi |-> 0]
    [] w = "10:60" -> [h |-> 10, mi |-> 60]

\* lexemes matching #(\d{4})\b ; "#52331" has five digits and does not
HashCardLex == {"#5233", "#0001"}

\* lexemes matching \*{2,}(\d{4})\b
MaskedCardLex == {"**5822", "****5822"}

\* lexemes matching (\d{4})\b from their start
FourDigitLex == {"5822", "0001"}

\* the (\d{4}) group of a card lexeme
CardDigits(w) ==
  CASE w = "#5233"    -> "5233"
    [] w = "#0001"    -> "0001"
    [] w = "**5822"   -> "5822"
    [] w = "****5822" -> "5822"
    [] OTHER          -> w

\* lexemes that contain a "." character, with the text before the first "."
PeriodLex == {".", "150.00", "20.00", "5000.00", "1,500.00", "0.00", "12.345", "12.35",
              "0.10"}

BeforePeriod(w) ==
  CASE w = "."        -> ""
    [] w = "150.00"   -> "150"
    [] w = "20.00"    -> "20"
    [] w = "5000.00"  -> "5000"
    [] w = "1,500.00" -> "1,500"
    [] w = "0.00"     -> "0"
    [] w = "12.345"   -> "12"
    [] w = "12.35"    -> "12"
    [] w = "0.10"     -> "0"

----------------------------------------------------------------------------
(* Generic text helpers                                                    *)

\* the words of ws joined by single spaces
RECURSIVE Words(_)
Words(ws) ==
  IF Len(ws) = 0 THEN <<>>
  ELSE IF Len(ws) = 1 THEN <<ws[1]>>
  ELSE <<ws[1], SP>> \o Words(Tail(ws))

\* number of whitespace lexemes of t starting at position i
RECURSIVE SpaceRun(_, _)
SpaceRun(t, i) ==
  IF i <= Len(t) /\ t[i] = SP THEN 1 + SpaceRun(t, i + 1) ELSE 0

\* String.prototype.trim
RECURSIVE TrimLeft(_)
TrimLeft(t) ==
  IF Len(t) > 0 /\ t[1] = SP THEN TrimLeft(Tail(t)) ELSE t

RECURSIVE TrimRight(_)
TrimRight(t) ==
  IF Len(t) > 0 /\ t[Len(t)] = SP THEN TrimRight(SubSeq(t, 1, Len(t) - 1)) ELSE t

Trim(t) == TrimRight(TrimLeft(t))

\* least element of a non-empty set of integers
Min(S) == CHOOSE x \in S : \A y \in S : x <= y

Max(S) == CHOOSE x \in S : \A y \in S : x >= y

----------------------------------------------------------------------------
(* parseChargedAmount                                                      *)

\* \s*(EGP|USD|EUR|€)\s*([\d,]+(?:\.\d+)?) matched at position j, after at
\* least minSp whitespace characters
CurNumAt(t, j, minSp) ==
  LET s1 == SpaceRun(t, j)
      c  == j + s1
      s2 == SpaceRun(t, c + 1)
      n  == c + 1 + s2
  IN  IF s1 >= minSp /\ c <= Len(t) /\ t[c] \in CurrencyLex
         /\ n <= Len(t) /\ t[n] \in NumberLex
      THEN LET raw == Upper(t[c])
           IN  Some([currency |-> IF raw = "€" THEN "EUR" ELSE raw,
                     amount   |-> NumberValue(t[n])])
      ELSE None

\* words that end in "charged" / in "of" (the pattern has no leading \b)
EndsCharged(w) == Lower(w) \in {"charged", "surcharged"}

EndsOf(w) == Lower(w) \in {"of", "proof"}

\* (?:charged(?:\s+for)?|of)\s+(CUR)\s*(NUM) matched with the keyword at i
ChargedAt(t, i) ==
  IF EndsCharged(t[i])
  THEN LET s1 == SpaceRun(t, i + 1)
           f  == i + 1 + s1
           withFor == IF s1 >= 1 /\ f <= Len(t) /\ Lower(t[f]) = "for"
                      THEN CurNumAt(t, f + 1, 1) ELSE None
       IN  IF IsSome(withFor) THEN withFor ELSE CurNumAt(t, i + 1, 1)
  ELSE IF EndsOf(t[i]) THEN CurNumAt(t, i + 1, 1)
  ELSE None

\* lexemes containing the Arabic word for "amount" (mablagh / bi-mablagh)
ArabicAmountLex == {"ar_mablagh", "ar_bimablagh"}

\* (?:amount)\s*(CUR)\s*(NUM) with the keyword at i
Arabic1At(t, i) ==
  IF t[i] \in ArabicAmountLex THEN CurNumAt(t, i + 1, 0) ELSE None

\* Arabic pound tokens and EGP, the tail of the second Arabic pattern
ArabicPoundLex == {"ar_gm", "ar_geneh", "EGP", "egp"}

\* (?:amount)\s*(NUM)\s*(?:pound tokens|EGP) with the keyword at i
Arabic2At(t, i) ==
  IF t[i] \in ArabicAmountLex
  THEN LET n == i + 1 + SpaceRun(t, i + 1)
           u == n + 1 + SpaceRun(t, n + 1)
       IN  IF n <= Len(t) /\ t[n] \in NumberLex
              /\ u <= Len(t) /\ t[u] \in ArabicPoundLex
           THEN Some([currency |-> "EGP", amount |-> NumberValue(t[n])])
           ELSE None
  ELSE None

parseChargedAmount(message) ==
  LET I  == 1..Len(message)
      M0 == {i \in I : IsSome(ChargedAt(message, i))}
      M1 == {i \in I : IsSome(Arabic1At(message, i))}
      M2 == {i \in I : IsSome(Arabic2At(message, i))}
  IN  IF M0 # {} THEN ChargedAt(message, Min(M0))
      ELSE IF M1 # {} THEN Arabic1At(message, Min(M1))
      ELSE IF M2 # {} THEN Arabic2At(message, Min(M2))
      ELSE None

----------------------------------------------------------------------------
(* parseMerchant                                                           *)

\* \s+<sep>\s+DATE matched at position p
SepDateAt(t, p, sep) ==
  LET r  == SpaceRun(t, p)
      w  == p + r
      r2 == SpaceRun(t, w + 1)
      d  == w + 1 + r2
  IN  r >= 1 /\ w <= Len(t) /\ Lower(t[w]) = sep
      /\ r2 >= 1 /\ d <= Len(t) /\ t[d] \in DateLex

\* <kw>\s+(.+?)\s+<sep>\s+DATE with the keyword ending at position i: the
\* capture as [from, to], or <<>>.  \s+ is greedy and gives whitespace
\* back only when nothing else matches; (.+?) is the shortest capture.
BoundedCapture(t, i, sep) ==
  LET k    == SpaceRun(t, i + 1)
      Ends(s) == {e \in (i + 1 + s)..Len(t) : SepDateAt(t, e + 1, sep)}
      S    == {s \in 1..k : Ends(s) # {}}
  IN  IF S = {} THEN None
      ELSE LET s == Max(S)
           IN  Some(SubSeq(t, i + 1 + s, Min(Ends(s))))

\* \s+at\s+\d{1,2}:\d{2}\b matched at position p
TimeAtMatches(t, p) ==
  LET r  == SpaceRun(t, p)
      w  == p + r
      r2 == SpaceRun(t, w + 1)
      d  == w + 1 + r2
  IN  r >= 1 /\ w <= Len(t) /\ Lower(t[w]) = "at"
      /\ r2 >= 1 /\ d <= Len(t) /\ t[d] \in TimeLex

\* the lazy capture (.+?) that starts at c (already holding acc) and is
\* extended up to position p, ended by " at HH:MM", by a "." or by the end
RECURSIVE FallbackScan(_, _, _)
FallbackScan(t, p, acc) ==
  IF p > Len(t) THEN acc
  ELSE IF TimeAtMatches(t, p) THEN acc
  ELSE IF t[p] \in PeriodLex
       THEN IF BeforePeriod(t[p]) = "" THEN acc
            ELSE Append(acc, BeforePeriod(t[p]))
  ELSE FallbackScan(t, p + 1, Append(acc, t[p]))

\* \bat\s+(.+?)(?:\s+at\s+\d{1,2}:\d{2}\b|\.|$) with "at" at position i
FallbackCapture(t, i) ==
  LET k == SpaceRun(t, i + 1)
      c == i + 1 + k
  IN  IF k = 0 THEN None
      ELSE IF c > Len(t)
           THEN IF k >= 2 THEN Some(<<SP>>) ELSE None
      ELSE IF t[c] \in PeriodLex /\ t[c] # "."
           THEN Some(<<BeforePeriod(t[c])>>)
      ELSE Some(FallbackScan(t, c + 1, <<t[c]>>))

\* card wording inside a capture: /card|ending in/
ArabicCardLex == {"ar_bitaqa", "ar_muntahi"}

\* the Arabic "ending in" phrase followed by an optionally masked suffix,
\* \s+ and "min", ending at the returned position (0 when no match at i)
EndingCardMinAt(t, i) ==
  LET b  == i + 1 + SpaceRun(t, i + 1)
      c  == b + 1 + SpaceRun(t, b + 1)
      r  == SpaceRun(t, c + 1)
      m  == c + 1 + r
  IN  IF t[i] = "ar_muntahi" /\ b <= Len(t) /\ t[b] = "ar_bi"
         /\ c <= Len(t) /\ t[c] \in (MaskedCardLex \cup FourDigitLex)
         /\ r >= 1 /\ m <= Len(t) /\ t[m] = "ar_min"
      THEN m ELSE 0

\* captured.split(/\s+min\s+/): the start positions of the segments
SplitPoints(c) ==
  {p \in 1..Len(c) : c[p] = "ar_min" /\ p > 1 /\ c[p - 1] = SP
                      /\ p < Len(c) /\ c[p + 1] = SP}

\* captured.split(/\s+min\s+/).map((s) => s.trim())
RECURSIVE SplitSegments(_)
SplitSegments(c) ==
  IF SplitPoints(c) = {} THEN <<Trim(c)>>
  ELSE LET p == Min(SplitPoints(c))
       IN  <<Trim(SubSeq(c, 1, p - 1))>> \o
           SplitSegments(SubSeq(c, p + 1 + SpaceRun(c, p + 1), Len(c)))

\* segments.filter(Boolean), then segments[segments.length - 1]; <<>> when
\* no segment is left
LastSegment(c) ==
  LET IsNonEmpty(sg) == sg # <<>>
      segments == SelectSeq(SplitSegments(c), IsNonEmpty)
  IN  IF Len(segments) = 0 THEN <<>> ELSE segments[Len(segments)]

parseMerchant(message) ==
  LET I      == 1..Len(message)
      OnDate == {i \in I : Lower(message[i]) = "at"
                           /\ IsSome(BoundedCapture(message, i, "on"))}
      Fall   == {i \in I : Lower(message[i]) = "at"
                           /\ IsSome(FallbackCapture(message, i))}
      ArAt   == {i \in I : message[i] = "ar_inda"
                           /\ IsSome(BoundedCapture(message, i, "ar_fi"))}
      ArCard == {i \in I : EndingCardMinAt(message, i) > 0
                           /\ IsSome(BoundedCapture(message,
                                  EndingCardMinAt(message, i), "ar_fi"))}
      ArFrom == {i \in I : message[i] = "ar_min"
                           /\ IsSome(BoundedCapture(message, i, "ar_fi"))}
  IN  IF OnDate # {}
      THEN Some(Trim(Get(BoundedCapture(message, Min(OnDate), "on"))))
      ELSE IF Fall # {}
      THEN Some(Trim(Get(FallbackCapture(message, Min(Fall)))))
      ELSE IF ArAt # {}
      THEN Some(Trim(Get(BoundedCapture(message, Min(ArAt), "ar_fi"))))
      ELSE IF ArCard # {}
      THEN Some(Trim(Get(BoundedCapture(message,
                  EndingCardMinAt(message, Min(ArCard)), "ar_fi"))))
      ELSE IF ArFrom # {}
      THEN LET captured == Trim(Get(BoundedCapture(message, Min(ArFrom), "ar_fi")))
           IN  IF (\E p \in 1..Len(captured) : captured[p] \in ArabicCardLex)
                  /\ SplitPoints(captured) # {}
                  /\ LastSegment(captured) # <<>>
               THEN Some(LastSegment(captured))
               ELSE Some(captured)
      ELSE None

----------------------------------------------------------------------------
(* parseCardLast4                                                          *)

\* \*{2,}\s*(\d{4})\b matched at position i: the digits (a string), or None
MaskedAt(t, i) ==
  LET n == i + 1 + SpaceRun(t, i + 1)
  IN  IF t[i] \in MaskedCardLex THEN Some(<<CardDigits(t[i])>>)
      ELSE IF t[i] \in {"**", "****"} /\ n <= Len(t) /\ t[n] \in FourDigitLex
           THEN Some(<<t[n]>>)
      ELSE None

\* the Arabic "ending in" phrase followed by \s*(\d{4})\b at position i
EndingAt(t, i) ==
  LET b == i + 1 + SpaceRun(t, i + 1)
      n == b + 1 + SpaceRun(t, b + 1)
  IN  IF t[i] = "ar_muntahi" /\ b <= Len(t) /\ t[b] = "ar_bi"
         /\ n <= Len(t) /\ t[n] \in FourDigitLex
      THEN Some(<<t[n]>>) ELSE None

parseCardLast4(message) ==
  LET I    == 1..Len(message)
      Hash == {i \in I : message[i] \in HashCardLex}
      Mask == {i \in I : IsSome(MaskedAt(message, i))}
      Endg == {i \in I : IsSome(EndingAt(message, i))}
  IN  IF Hash # {} THEN Some(<<CardDigits(message[Min(Hash)])>>)
      ELSE IF Mask # {} THEN MaskedAt(message, Min(Mask))
      ELSE IF Endg # {} THEN EndingAt(message, Min(Endg))
      ELSE None

----------------------------------------------------------------------------
(* isLikelyTransferMessage                                                 *)

\* words that contain "ipn" (the pattern /ipn/i has no word boundaries)
ContainsIpn(w) == Lower(w) \in {"ipn", "shipnow"}

\* lexemes that contain the Arabic word for "transfer"
ArabicTransferLex == {"ar_tahwil"}

\* two words separated by exactly one space character, at position i
PhraseAt(t, i, w1, w2) ==
  i + 2 <= Len(t) /\ Lower(t[i]) = w1 /\ t[i + 1] = SP /\ Lower(t[i + 2]) = w2

isLikelyTransferMessage(message) ==
  \E i \in 1..Len(message) :
    \/ Lower(message[i]) = "transfer"
    \/ message[i] \in ArabicTransferLex
    \/ Lower(message[i]) = "instapay"
    \/ ContainsIpn(message[i])
    \/ Lower(message[i]) = "iban"
    \/ Lower(message[i]) = "swift"
    \/ PhraseAt(message, i, "sent", "to")
    \/ PhraseAt(message, i, "received", "from")
    \/ Lower(message[i]) = "wallet"
    \/ Lower(message[i]) = "cashout"
    \/ PhraseAt(message, i, "cash", "out")

----------------------------------------------------------------------------
(* JavaScript values that reach the code from outside (environment         *)
(* variables, JSON documents): a tag, a number in thousandths, a string    *)
(* as a lexeme sequence, a boolean.                                        *)

JsUndefined == [t |-> "undefined", v |-> 0, s |-> <<>>, b |-> FALSE]

JsNull      == [t |-> "null", v |-> 0, s |-> <<>>, b |-> FALSE]

JsNaN       == [t |-> "nan", v |-> 0, s |-> <<>>, b |-> FALSE]

JsInfinity  == [t |-> "inf", v |-> 0, s |-> <<>>, b |-> FALSE]

JsNum(n)    == [t |-> "num", v |-> n, s |-> <<>>, b |-> FALSE]

JsStr(str)  == [t |-> "str", v |-> 0, s |-> str, b |-> FALSE]

JsBool(bb)  == [t |-> "bool", v |-> 0, s |-> <<>>, b |-> bb]

\* strings that Number() reads as a finite decimal, in thousandths
NumericLex == {"150.00", "20.00", "5000.00", "0.00", "12.345", "12.35", "0.10", "123",
               "50.25", "0", "-5"}

NumericValue(w) ==
  CASE w = "50.25" -> 50250
    [] w = "0"     -> 0
    [] w = "-5"    -> -5000
    [] OTHER       -> NumberValue(w)

\* Number(x)
ToNumber(x) ==
  CASE x.t = "num"       -> x
    [] x.t = "nan"       -> JsNaN
    [] x.t = "inf"       -> JsInfinity
    [] x.t = "undefined" -> JsNaN
    [] x.t = "null"      -> JsNum(0)
    [] x.t = "bool"      -> JsNum(IF x.b THEN 1000 ELSE 0)
    [] x.t = "str"       ->
         LET w == Trim(x.s)
         IN  IF w = <<>> THEN JsNum(0)
             ELSE IF Len(w) = 1 /\ w[1] \in NumericLex THEN JsNum(NumericValue(w[1]))
             ELSE IF w = <<"Infinity">> THEN JsInfinity
             ELSE JsNaN

\* Number.isFinite(x): a number that is neither NaN nor infinite
IsFiniteNumber(x) == x.t = "num"

\* truthiness of a string or undefined, as in  if (fromEnv)
Truthy(x) ==
  CASE x.t = "str"  -> x.s # <<>>
    [] x.t = "num"  -> x.v # 0
    [] x.t = "bool" -> x.b
    [] x.t = "inf"  -> TRUE
    [] OTHER        -> FALSE

----------------------------------------------------------------------------
(* Currency rate resolver: getToEgpRate and the module-level fxCache       *)

SupportedCurrency == {"EGP", "USD", "EUR"}

Foreign == {"USD", "EUR"}

\* one hour of Date.now(), in milliseconds
Hour == 60 * 60 * 1000

\* 6 * 60 * 60 * 1000
CacheTtl == 6 * 60 * 60 * 1000

\* the environment key read for a foreign currency
envKey(currency) == IF currency = "USD" THEN "USD_TO_EGP_RATE" ELSE "EUR_TO_EGP_RATE"

envRate_finite(environment, currency) ==
  LET fromEnv == environment[envKey(currency)]
      n       == ToNumber(fromEnv)
  IN  IF Truthy(fromEnv) /\ IsFiniteNumber(n) THEN Some(n.v) ELSE None

\* the static override: Some(n) when the variable is set and Number(fromEnv)
\* is finite and > 0
envRate(environment, currency) ==
  LET fromEnv == environment[envKey(currency)]
      n       == ToNumber(fromEnv)
  IN  IF Truthy(fromEnv) /\ IsFiniteNumber(n) /\ n.v > 0 THEN Some(n.v) ELSE None

\* cached && now - cached.at < 6 * 60 * 60 * 1000
cacheFresh_hour(cached, nowMs) == IsSome(cached) /\ nowMs - Get(cached).at < Hour

cacheFresh_inclusive(cached, nowMs) == IsSome(cached) /\ nowMs - Get(cached).at <= CacheTtl

cacheFresh(cached, nowMs) == IsSome(cached) /\ nowMs - Get(cached).at < CacheTtl

\* the part of getToEgpRate before the fetch: the rate returned without a
\* network call, or a pending fetch that remembers now
rateBeforeFetch(currency, environment, cache, nowMs) ==
  IF currency = "EGP" THEN [kind |-> "return", rate |-> 1000, src |-> "base"]
  ELSE IF IsSome(envRate(environment, currency))
       THEN [kind |-> "return", rate |-> Get(envRate(environment, currency)), src |-> "env"]
  ELSE IF cacheFresh(cache[currency], nowMs)
       THEN [kind |-> "return", rate |-> Get(cache[currency]).rate, src |-> "cache"]
  ELSE [kind |-> "fetch", rate |-> 0, src |-> "net"]

\* !Number.isFinite(rate) || rate <= 0  is false
rateUsable_finite(rate) == IsFiniteNumber(rate)

rateUsable(rate) == IsFiniteNumber(rate) /\ rate.v > 0

\* outcomes of the fetch of the rate service: the fetch rejects, answers
\* with a non-OK status, with a body that is not JSON, or with a JSON
\* document whose rates.EGP is the given value
FxResponses ==
  {[kind |-> "json",       egp |-> JsNum(50250)],
   [kind |-> "json",       egp |-> JsNum(48105)],
   [kind |-> "json",       egp |-> JsNum(0)],
   [kind |-> "json",       egp |-> JsNum(-1000)],
   [kind |-> "json",       egp |-> JsUndefined],
   [kind |-> "json",       egp |-> JsStr(<<"50.25">>)],
   [kind |-> "json",       egp |-> JsNaN],
   [kind |-> "json",       egp |-> JsInfinity],
   [kind |-> "bad_json",   egp |-> JsUndefined],
   [kind |-> "http_error", egp |-> JsUndefined],
   [kind |-> "rejected",   egp |-> JsUndefined]}

rateAfterFetch_evict(currency, res, cache, nowAtCall) ==
  IF res.kind # "json" \/ ~rateUsable(res.egp)
  THEN [kind |-> "throw", rate |-> 0, cache |-> [cache EXCEPT ![currency] = None]]
  ELSE [kind  |-> "return", rate |-> res.egp.v,
        cache |-> [cache EXCEPT ![currency] = Some([rate |-> res.egp.v, at |-> nowAtCall])]]

rateAfterFetch_everyKey(currency, res, cache, nowAtCall) ==
  IF res.kind # "json" THEN [kind |-> "throw", rate |-> 0, cache |-> cache]
  ELSE IF ~rateUsable(res.egp) THEN [kind |-> "throw", rate |-> 0, cache |-> cache]
  ELSE [kind  |-> "return", rate |-> res.egp.v,
        cache |-> [c \in Foreign |-> Some([rate |-> res.egp.v, at |-> nowAtCall])]]

\* the part of getToEgpRate after the fetch settled with res: throws, or
\* stores {rate, at: now} and returns the rate
rateAfterFetch(currency, res, cache, nowAtCall) ==
  IF res.kind # "json" THEN [kind |-> "throw", rate |-> 0, cache |-> cache]
  ELSE IF ~rateUsable(res.egp) THEN [kind |-> "throw", rate |-> 0, cache |-> cache]
  ELSE [kind  |-> "return", rate |-> res.egp.v,
        cache |-> [cache EXCEPT ![currency] = Some([rate |-> res.egp.v, at |-> nowAtCall])]]

----------------------------------------------------------------------------
(* parseMessageTimestamp                                                   *)

\* (?:\bon\b|fi)\s+DATE\s+HH:MM(?:\s*(AM|PM))? with the keyword at i:
\* the date, the time and the suffix ("" when there is none)
TimestampAt(t, i) ==
  LET r1 == SpaceRun(t, i + 1)
      d  == i + 1 + r1
      r2 == SpaceRun(t, d + 1)
      h  == d + 1 + r2
      a  == h + 1 + SpaceRun(t, h + 1)
  IN  IF (Lower(t[i]) = "on" \/ t[i] = "ar_fi")
         /\ r1 >= 1 /\ d <= Len(t) /\ t[d] \in DateLex
         /\ r2 >= 1 /\ h <= Len(t) /\ t[h] \in TimeLex
      THEN Some([date |-> t[d], time |-> t[h],
                 ampm |-> IF a <= Len(t) /\ Lower(t[a]) \in {"am", "pm"}
                          THEN Lower(t[a]) ELSE ""])
      ELSE None

parseMessageTimestamp_noRange(message) ==
  LET M == {i \in 1..Len(message) : IsSome(TimestampAt(message, i))}
  IN  IF M = {} THEN None
      ELSE LET match  == Get(TimestampAt(message, Min(M)))
               rawYear == DateParts(match.date).y
               hour0  == TimeParts(match.time).h
           IN  Some([y  |-> IF rawYear < 100 THEN 2000 + rawYear ELSE rawYear,
                     m  |-> DateParts(match.date).m,
                     d  |-> DateParts(match.date).d,
                     h  |-> IF match.ampm = "am" /\ hour0 = 12 THEN 0
                            ELSE IF match.ampm = "pm" /\ hour0 < 12 THEN hour0 + 12
                            ELSE hour0,
                     mi |-> TimeParts(match.time).mi])

\* the timestamp as year, month, day, hour, minute at the fixed +02:00
\* offset, or None.  Every date of DateLex that passes the range checks
\* is a calendar date, so new Date(iso) is valid for it.
parseMessageTimestamp(message) ==
  LET M == {i \in 1..Len(message) : IsSome(TimestampAt(message, i))}
  IN  IF M = {} THEN None
      ELSE LET match  == Get(TimestampAt(message, Min(M)))
               day    == DateParts(match.date).d
               month  == DateParts(match.date).m
               rawYear == DateParts(match.date).y
               hour0  == TimeParts(match.time).h
               minute == TimeParts(match.time).mi
               year   == IF rawYear < 100 THEN 2000 + rawYear ELSE rawYear
               hour   == IF match.ampm = "am" /\ hour0 = 12 THEN 0
                         ELSE IF match.ampm = "pm" /\ hour0 < 12 THEN hour0 + 12
                         ELSE hour0
           IN  IF month < 1 \/ month > 12 \/ day < 1 \/ day > 31
                  \/ hour0 < 0 \/ hour0 > 23 \/ minute < 0 \/ minute > 59
               THEN None
               ELSE Some([y |-> year, m |-> month, d |-> day, h |-> hour, mi |-> minute])

----------------------------------------------------------------------------
(* Oracle adapter: normalizeCurrency, extractJsonObject,                   *)
(* extractWithOpenRouter                                                   *)

normalizeCurrency(value) ==
  IF value.t # "str" THEN None
  ELSE LET v == Trim(value.s)
       IN  IF Len(v) # 1 THEN None
           ELSE IF Upper(v[1]) = "€" THEN Some("EUR")
           ELSE IF Upper(v[1]) \in {"EGP", "USD", "EUR"} THEN Some(Upper(v[1]))
           ELSE None

\* a completion text: its form and the JSON document it holds (None is the
\* JSON value null).  "json": the text is the document; "wrapped": the
\* document stands inside prose or a code fence; "prose": no braces;
\* "broken": braces around text that is not JSON
extractJsonObject(text) ==
  IF text.form = "json" THEN text.doc
  ELSE IF text.form = "wrapped" THEN text.doc
  ELSE None

\* a JSON document of the oracle
Doc(merchant, card, currency, amount, category, transfer) ==
  [merchant |-> merchant, card_last4 |-> card, currency |-> currency,
   amount |-> amount, category |-> category, is_transfer |-> transfer]

\* outcomes of the fetch of the oracle
OracleOutcomes ==
  {[kind |-> k, text |-> [form |-> "none", doc |-> None]] :
     k \in {"rejected", "http_error", "no_content"}}
  \cup
  {[kind |-> "content", text |-> [form |-> "prose", doc |-> None]],
   [kind |-> "content", text |-> [form |-> "broken", doc |-> None]],
   [kind |-> "content", text |-> [form |-> "json", doc |-> None]]}
  \cup
  {[kind |-> "content", text |-> [form |-> f, doc |-> Some(d)]] :
     f \in {"json"},
     d \in {Doc(JsStr(<<"Uber">>), JsStr(<<"5233">>), JsStr(<<"USD">>),
                JsNum(20000), JsStr(<<"Transport">>), JsBool(FALSE)),
            Doc(JsNull, JsNull, JsNull, JsNull, JsNull, JsNull),
            Doc(JsUndefined, JsUndefined, JsUndefined, JsUndefined,
                JsUndefined, JsUndefined),
            Doc(JsNull, JsNull, JsStr(<<"EGP">>), JsNum(5000000),
                JsStr(<<"Transfers">>), JsBool(TRUE)),
            Doc(JsStr(<<>>), JsStr(<<"52331">>), JsStr(<<"€">>), JsNum(-5000),
                JsStr(<<"Bogus">>), JsStr(<<"true">>)),
            Doc(JsStr(<<"Starbucks">>), JsNum(5233000), JsStr(<<"usd">>),
                JsStr(<<"12.345">>), JsStr(<<"Bills">>), JsBool(TRUE))}}
  \cup
  {[kind |-> "content", text |-> [form |-> "wrapped", doc |-> Some(
      Doc(JsStr(<<SP, "Starbucks", SP>>), JsStr(<<SP>>), JsStr(<<"GBP">>),
          JsNaN, JsStr(<<SP, "Bills">>), JsNull))]]}

\* the AIExtraction built from the parsed document
normalizeExtraction(parsed) ==
  LET amount == ToNumber(parsed.amount)
  IN  [merchant    |-> IF parsed.merchant.t = "str"
                       THEN Some(Trim(parsed.merchant.s)) ELSE None,
       card_last4  |-> IF parsed.card_last4.t = "str"
                       THEN Some(Trim(parsed.card_last4.s)) ELSE None,
       currency    |-> normalizeCurrency(parsed.currency),
       amount      |-> IF IsFiniteNumber(amount) THEN Some(amount.v) ELSE None,
       category    |-> IF parsed.category.t = "str"
                       THEN Some(Trim(parsed.category.s)) ELSE None,
       is_transfer |-> IF parsed.is_transfer.t = "bool"
                       THEN Some(parsed.is_transfer.b) ELSE None]

\* extractWithOpenRouter once the fetch settled with outcome: null or the
\* AIExtraction
extractWithOpenRouter(outcome) ==
  IF outcome.kind # "content" THEN None
  ELSE LET parsed == extractJsonObject(outcome.text)
       IN  IF ~IsSome(parsed) THEN None
           ELSE Some(normalizeExtraction(Get(parsed)))

----------------------------------------------------------------------------
(* handleMessage: local extraction, merge with the oracle, conversion,     *)
(* merchant history, insert                                                *)

UnknownMerchant == <<"Unknown", SP, "Merchant">>

validCategories ==
  {<<"Food">>, <<"Transport">>, <<"Bills">>, <<"Shopping">>, <<"Entertainment">>,
   <<"Healthcare">>, <<"Education">>, <<"Subscriptions">>, <<"Installments">>,
   <<"Transfers">>, <<"Other">>}

\* str.toLowerCase().includes('transfer') / includes('atm')
includesTransfer(str) ==
  \E i \in 1..Len(str) : Lower(str[i]) \in {"transfer", "transfers"}

includesAtm(str) ==
  \E i \in 1..Len(str) : Lower(str[i]) \in {"atm", "atmosphere"}

\* Number((amount * rate).toFixed(2)) for two numbers in thousandths: the
\* results in thousandths.  A product that lies exactly between two
\* hundredths is not exactly representable as a double in general, so
\* either neighbour can come out.  (The product is split so that no
\* intermediate value leaves the 32-bit range.)
toFixed2_floor(amount, rate) ==
  {((amount \div 10000) * rate + ((amount % 10000) * rate) \div 10000) * 10}

RECURSIVE toFixed2(_, _)
toFixed2(amount, rate) ==
  IF amount < 0 THEN {0 - y : y \in toFixed2(0 - amount, rate)}
  ELSE LET low == (amount % 10000) * rate
           q   == (amount \div 10000) * rate + low \div 10000
           rem == low % 10000
       IN  IF rem < 5000 THEN {q * 10}
           ELSE IF rem > 5000 THEN {(q + 1) * 10}
           ELSE {q * 10, (q + 1) * 10}

\* the request before a message arrived
IdleRequest ==
  [pc |-> "idle", request |-> [channel |-> "none", value |-> JsUndefined],
   message |-> <<>>,
   parsedCardLast4 |-> None, charged |-> None, regexMerchant |-> None,
   parsedMessageTimestamp |-> None, transferDetectedByText |-> FALSE,
   needAI |-> FALSE, oracleCalls |-> 0, ai |-> None,
   cardNumber |-> None, originalCurrency |-> "EGP", originalAmount |-> 0,
   merchantName |-> <<>>, transferDetected |-> FALSE,
   rateNow |-> 0, rateCalls |-> 0, rateSrc |-> "none", rate |-> 0, amountEgp |-> 0,
   queried |-> FALSE, existingTransactions |-> None,
   category |-> <<>>, record |-> None, inserted |-> FALSE, insertError |-> FALSE,
   response |-> "none"]

localExtraction_ignoreTransfer(message) ==
  LET regexMerchant == parseMerchant(message)
      charged       == parseChargedAmount(message)
      byText        == isLikelyTransferMessage(message)
  IN  [IdleRequest EXCEPT
         !.message = message,
         !.parsedCardLast4 = parseCardLast4(message),
         !.charged = charged,
         !.regexMerchant = regexMerchant,
         !.parsedMessageTimestamp = parseMessageTimestamp(message),
         !.transferDetectedByText = byText,
         !.needAI = ~IsSome(regexMerchant) \/ Get(regexMerchant) = <<>>
                    \/ ~IsSome(charged)]

\* handleMessage lines 606-616: the local extraction and needAI
localExtraction(message) ==
  LET regexMerchant == parseMerchant(message)
      charged       == parseChargedAmount(message)
      byText        == isLikelyTransferMessage(message)
  IN  [IdleRequest EXCEPT
         !.message = message,
         !.parsedCardLast4 = parseCardLast4(message),
         !.charged = charged,
         !.regexMerchant = regexMerchant,
         !.parsedMessageTimestamp = parseMessageTimestamp(message),
         !.transferDetectedByText = byText,
         !.needAI = ~byText /\ (~IsSome(regexMerchant) \/ Get(regexMerchant) = <<>>
                                \/ ~IsSome(charged))]

mergeFields_oracleFirst(r, ai) ==
  LET aiField(f) == IF IsSome(ai) THEN Get(ai)[f] ELSE None
      local(f)   == IF IsSome(r.charged) THEN Some(Get(r.charged)[f]) ELSE None
  IN  [r EXCEPT
         !.ai = ai,
         !.cardNumber = Coalesce(aiField("card_last4"), r.parsedCardLast4),
         !.originalCurrency =
            Get(Coalesce(aiField("currency"), Coalesce(local("currency"), Some("EGP")))),
         !.originalAmount =
            Get(Coalesce(aiField("amount"), Coalesce(local("amount"), Some(0)))),
         !.merchantName =
            Get(Coalesce(aiField("merchant"),
                         Coalesce(r.regexMerchant, Some(UnknownMerchant)))),
         !.transferDetected =
            r.transferDetectedByText \/ aiField("is_transfer") = Some(TRUE)]

\* handleMessage lines 619-623: the merge of local and oracle fields
mergeFields(r, ai) ==
  LET aiField(f) == IF IsSome(ai) THEN Get(ai)[f] ELSE None
  IN  [r EXCEPT
         !.ai = ai,
         !.cardNumber = Coalesce(r.parsedCardLast4, aiField("card_last4")),
         !.originalCurrency =
            IF IsSome(r.charged) THEN Get(r.charged).currency
            ELSE Get(Coalesce(aiField("currency"), Some("EGP"))),
         !.originalAmount =
            IF IsSome(r.charged) THEN Get(r.charged).amount
            ELSE Get(Coalesce(aiField("amount"), Some(0))),
         !.merchantName =
            Get(Coalesce(r.regexMerchant,
                         Coalesce(aiField("merchant"), Some(UnknownMerchant)))),
         !.transferDetected =
            r.transferDetectedByText \/ aiField("is_transfer") = Some(TRUE)]

\* the rows a query  select category where merchant = m limit 1  can
\* answer with: an error, or at most one of the matching rows
historyResults(table, merchant) ==
  LET matching == {i \in 1..Len(table) : table[i].merchant = merchant}
  IN  {[error |-> TRUE, data |-> None]}
      \cup (IF matching = {}
            THEN {[error |-> FALSE, data |-> Some(<<>>)]}
            ELSE {[error |-> FALSE, data |-> Some(<<[category |-> table[i].category]>>)] :
                    i \in matching})

decideCategory_anyOracle(transferDetected, existingTransactions, ai) ==
  IF transferDetected THEN <<"Transfers">>
  ELSE IF IsSome(existingTransactions) /\ Len(Get(existingTransactions)) > 0
          /\ Get(existingTransactions)[1].category # <<>>
       THEN Get(existingTransactions)[1].category
  ELSE LET aiCategory == IF IsSome(ai) THEN Get(ai).category ELSE None
       IN  IF IsSome(aiCategory) THEN Get(aiCategory) ELSE <<"Other">>

decideCategory_oracleFirst(transferDetected, existingTransactions, ai) ==
  IF transferDetected THEN <<"Transfers">>
  ELSE LET aiCategory == IF IsSome(ai) THEN Get(ai).category ELSE None
       IN  IF IsSome(aiCategory) /\ Get(aiCategory) \in validCategories
           THEN Get(aiCategory)
           ELSE IF IsSome(existingTransactions) /\ Len(Get(existingTransactions)) > 0
                   /\ Get(existingTransactions)[1].category # <<>>
                THEN Get(existingTransactions)[1].category
           ELSE <<"Other">>

\* handleMessage lines 645-675: the category decision
decideCategory(transferDetected, existingTransactions, ai) ==
  IF transferDetected THEN <<"Transfers">>
  ELSE IF IsSome(existingTransactions) /\ Len(Get(existingTransactions)) > 0
          /\ Get(existingTransactions)[1].category # <<>>
       THEN Get(existingTransactions)[1].category
  ELSE LET aiCategory == IF IsSome(ai) THEN Get(ai).category ELSE None
       IN  IF IsSome(aiCategory) /\ Get(aiCategory) # <<>>
              /\ Get(aiCategory) \in validCategories
           THEN Get(aiCategory)
           ELSE <<"Other">>

computeIncludeInInsights_noAtm(merchantName, category) ==
  ~includesTransfer(merchantName) /\ category # <<"Transfers">>

\* handleMessage lines 677-681
computeIncludeInInsights(merchantName, category) ==
  ~includesTransfer(merchantName) /\ ~includesAtm(merchantName)
  /\ category # <<"Transfers">>

finalMerchant_keep(transferDetected, merchantName) == merchantName

\* handleMessage lines 647-651: a transfer replaces the merchant
finalMerchant(transferDetected, merchantName) ==
  IF transferDetected THEN <<"Transfer">> ELSE merchantName

\* handleMessage lines 645-694 after the history answer: category, final
\* merchant, insights flag and the record handed to the insert
assemble(r, existingTransactions) ==
  LET category == decideCategory(r.transferDetected, existingTransactions, r.ai)
      merchant == finalMerchant(r.transferDetected, r.merchantName)
  IN  [r EXCEPT
         !.pc = "insert",
         !.existingTransactions = existingTransactions,
         !.category = category,
         !.record = Some([created_at  |-> r.parsedMessageTimestamp,
                          card_last4  |-> IF IsSome(r.cardNumber) /\ Get(r.cardNumber) # <<>>
                                          THEN r.cardNumber ELSE None,
                          amount      |-> r.amountEgp,
                          merchant    |-> merchant,
                          category    |-> category,
                          include_in_insights |->
                             computeIncludeInInsights(merchant, category),
                          raw_text    |-> r.message])]

\* handleMessage lines 636-643: the history query is sent unless the
\* merchant is the sentinel
startHistory(r) ==
  IF r.merchantName # UnknownMerchant
  THEN [r EXCEPT !.pc = "history", !.queried = TRUE]
  ELSE assemble(r, None)

fallbackAmount_zero(originalAmount) == 0

\* the amount stored when the rate lookup threw: Number(originalAmount) || 0
fallbackAmount(originalAmount) == IF originalAmount = 0 THEN 0 ELSE originalAmount

\* handleMessage lines 626-634 once getToEgpRate returned or threw: the
\* requests that can follow
afterRate_retry(r, result, src) ==
  IF result.kind = "return"
  THEN {startHistory([r EXCEPT !.rate = result.rate, !.rateSrc = src, !.amountEgp = a]) :
          a \in toFixed2(r.originalAmount, result.rate)}
  ELSE IF r.pc = "fetch" /\ r.rateCalls < 2
       THEN {[r EXCEPT !.rateCalls = r.rateCalls + 1]}
  ELSE {startHistory([r EXCEPT !.rateSrc = "failed",
                               !.amountEgp = fallbackAmount(r.originalAmount)])}

afterRate(r, result, src) ==
  IF result.kind = "return"
  THEN {startHistory([r EXCEPT !.rate = result.rate, !.rateSrc = src, !.amountEgp = a]) :
          a \in toFixed2(r.originalAmount, result.rate)}
  ELSE {startHistory([r EXCEPT !.rateSrc = "failed",
                               !.amountEgp = fallbackAmount(r.originalAmount)])}

afterOracle_blocking(r, ai, environment, cache, nowMs) ==
  IF r.needAI /\ ai = None
  THEN {[r EXCEPT !.pc = "done", !.response = "500"]}
  ELSE LET m  == mergeFields(r, ai)
           rb == rateBeforeFetch(m.originalCurrency, environment, cache, nowMs)
       IN  IF rb.kind = "return" THEN afterRate(m, rb, rb.src)
           ELSE {[m EXCEPT !.pc = "fetch", !.rateNow = nowMs, !.rateCalls = 1]}

\* handleMessage lines 619-634 once the oracle answered (or was skipped):
\* merge, then getToEgpRate up to its fetch
afterOracle(r, ai, environment, cache, nowMs) ==
  LET m  == mergeFields(r, ai)
      rb == rateBeforeFetch(m.originalCurrency, environment, cache, nowMs)
  IN  IF rb.kind = "return" THEN afterRate(m, rb, rb.src)
      ELSE {[m EXCEPT !.pc = "fetch", !.rateNow = nowMs, !.rateCalls = 1]}

----------------------------------------------------------------------------
(* Inputs                                                                  *)

\* "credit card #NNNN charged CUR X.YY at MERCHANT"
CanonicalMessage(card, cur, amount, merchant) ==
  Words(<<"credit", "card", card, "charged", cur, amount, "at">>) \o <<SP>> \o merchant

\* merchant texts: a plain name, a name in surrounding whitespace, a name
\* with a period, names that mention atm or a transfer keyword, a name
\* followed by a date clause
CanonicalMerchants ==
  {<<"Starbucks">>, <<SP, "Coffee", SP, "Shop", SP>>, <<"St", ".", SP, "Mary">>,
   <<"ATM", SP, "Cairo">>, <<"Wallet", SP, "Store">>,
   <<"Cafe", SP, "on", SP, "21/12/25">>}

\* the fields NNNN, CUR, X.YY and MERCHANT of the canonical messages sent
CanonicalInputs ==
  {[card |-> "#5233", cur |-> "EGP", amount |-> "150.00", merchant |-> m] :
     m \in CanonicalMerchants}
  \cup {[card |-> "#0001", cur |-> "USD", amount |-> "12.35", merchant |-> <<"Starbucks">>],
        [card |-> "#5233", cur |-> "EUR", amount |-> "20.00", merchant |-> <<"Uber">>]}

CanonicalMessages ==
  {CanonicalMessage(c.card, c.cur, c.amount, c.merchant) : c \in CanonicalInputs}

OtherMessages ==
  {Words(<<"Transfer", "reference", "123", "of", "EGP", "5000.00", "has", "been", "debited">>),
   Words(<<"hello">>),
   Words(<<"purchase", "at", "Starbucks">>),
   Words(<<"purchase", "at", "Noon">>),
   Words(<<"you", "were", "Charged", "for", "usd", "1,500.00">>),
   <<"paid", SP, "at", SP, SP, SP, "On", SP, "21/12/25">>,
   Words(<<"IBAN", "payment", "at", "Starbucks">>),
   Words(<<"card", "#52331", "charged", "EGP", "0.00", "at", "Atmosphere", "on",
           "21/12/25", "11:15", "PM">>),
   Words(<<"ar_khasm", "ar_mablagh", "EUR", "20.00", "ar_min", "ar_bitaqa",
           "ar_muntahi", "ar_bi", "**5822", "ar_min", "BDC", "ar_fi", "21/12/25", "14:03">>),
   Words(<<"ar_tahwil", "ar_bimablagh", "0.10", "ar_gm">>)}

Messages == CanonicalMessages \cup OtherMessages

\* the message member of a JSON request body
Bodies ==
  {JsStr(m) : m \in Messages} \cup {JsUndefined, JsNum(5000), JsStr(<<>>), JsStr(<<SP>>)}

\* the requests: a POST with a JSON body and its message member, a POST
\* whose JSON body does not parse, a POST with a raw-text body, a GET with
\* its message query parameter (null when absent)
Requests ==
  {[channel |-> "json", value |-> b] : b \in Bodies}
  \cup {[channel |-> "badjson", value |-> JsUndefined]}
  \cup {[channel |-> "text", value |-> JsStr(m)] :
          m \in {<<>>, <<SP, SP>>, Words(<<"purchase", "at", "Starbucks">>)}}
  \cup {[channel |-> "get", value |-> v] :
          v \in {JsNull, JsStr(<<>>), JsStr(<<SP>>),
                 JsStr(CanonicalMessage("#5233", "EGP", "150.00", <<"Starbucks">>))}}

\* process.env: the two rate overrides and the two oracle keys
Environments ==
  {[USD_TO_EGP_RATE |-> JsUndefined, EUR_TO_EGP_RATE |-> JsUndefined,
    OPENROUTER_API_KEY |-> JsStr(<<"sk">>), qwen_api_key |-> JsUndefined],
   [USD_TO_EGP_RATE |-> JsStr(<<"50.25">>), EUR_TO_EGP_RATE |-> JsStr(<<"abc">>),
    OPENROUTER_API_KEY |-> JsUndefined, qwen_api_key |-> JsStr(<<"sk">>)],
   [USD_TO_EGP_RATE |-> JsStr(<<"0">>), EUR_TO_EGP_RATE |-> JsStr(<<"-5">>),
    OPENROUTER_API_KEY |-> JsStr(<<>>), qwen_api_key |-> JsStr(<<"sk">>)]}

storedCreatedAt_default(record, nowMs) == [default |-> TRUE, ts |-> None, at |-> nowMs]

\* the created_at column of a stored row: the timestamp of the insert
\* payload, or the default now() of the table
storedCreatedAt(record, nowMs) ==
  IF IsSome(record.created_at)
  THEN [default |-> FALSE, ts |-> record.created_at, at |-> 0]
  ELSE [default |-> TRUE, ts |-> None, at |-> nowMs]

\* created_at of the rows stored before the first message
EarlierCreatedAt == [default |-> TRUE, ts |-> None, at |-> 0]

\* rows of public.transactions that exist before the first message
InitialTransactions ==
  <<[merchant |-> <<"Starbucks">>, category |-> <<"Food">>, include_in_insights |-> TRUE,
     created_at |-> EarlierCreatedAt],
    [merchant |-> <<"Starbucks">>, category |-> <<"Shopping">>, include_in_insights |-> TRUE,
     created_at |-> EarlierCreatedAt],
    [merchant |-> UnknownMerchant, category |-> <<"Bills">>, include_in_insights |-> TRUE,
     created_at |-> EarlierCreatedAt],
    [merchant |-> <<>>, category |-> <<"Healthcare">>, include_in_insights |-> TRUE,
     created_at |-> EarlierCreatedAt],
    [merchant |-> <<"Noon">>, category |-> <<>>, include_in_insights |-> TRUE,
     created_at |-> EarlierCreatedAt]>>

\* the rows of public.categories (name is unique) and of
\* public.merchant_settings (merchant is the primary key) before any call
InitialCategories == {<<"Food">>, <<"Shopping">>, <<"Bills">>, <<"Healthcare">>}

InitialMerchantSettings ==
  {[merchant |-> <<"Starbucks">>, category_name |-> <<"Food">>, updated_at |-> 0],
   [merchant |-> <<"Uber">>, category_name |-> <<"Bills">>, updated_at |-> 0]}

InitialSettings ==
  [categories |-> InitialCategories, merchant_settings |-> InitialMerchantSettings]

\* bounds: messages handled, hours of the clock
MaxRequests == 1

MaxHours == 6

\* hours that pass in one step of the clock
TickHours == MaxHours \div 2

----------------------------------------------------------------------------
(* State                                                                   *)

VARIABLES
  env,            \* process.env
  now,            \* Date.now()
  fxCache,        \* the module-level rate cache
  transactions,   \* the table public.transactions
  req,            \* the message being handled
  served,         \* number of messages received
  calls,          \* suspended getToEgpRate calls of concurrent requests
  callSeq,        \* number of getToEgpRate calls started
  fxLog,          \* the getToEgpRate calls that returned or threw, in order
  corrections,    \* the updateTransactionCategory calls made, in order
  settings,       \* the tables public.categories and public.merchant_settings
  serverCalls     \* the updateInsightToggle and renameCategory calls, in order

vars == <<env, now, fxCache, transactions, req, served, calls, callSeq, fxLog,
          corrections, settings, serverCalls>>

\* concurrent callers of getToEgpRate, and calls made in all
NumCallers == 2

MaxCalls == 3


Init ==
  /\ env \in Environments
  /\ now = 0
  /\ fxCache = [c \in Foreign |-> None]
  /\ transactions = InitialTransactions
  /\ req = IdleRequest
  /\ served = 0
  /\ calls = <<>>
  /\ callSeq = 0
  /\ fxLog = <<>>
  /\ corrections = <<>>
  /\ settings = InitialSettings
  /\ serverCalls = [toggles |-> <<>>, renames |-> <<>>]

readMessage_noTrim(request) ==
  IF request.channel = "badjson" THEN None
  ELSE IF request.value.t = "str" /\ request.value.s # <<>>
       THEN Some(request.value.s) ELSE None

\* readMessage: the message of a POST request, or null
readMessage(request) ==
  IF request.channel = "json"
  THEN IF request.value.t = "str" /\ Trim(request.value.s) # <<>>
       THEN Some(request.value.s) ELSE None
  ELSE IF request.channel = "text"
  THEN IF request.value.s # <<>> /\ Trim(request.value.s) # <<>>
       THEN Some(request.value.s) ELSE None
  ELSE None

\* the message GET and POST hand to handleMessage, or None when they
\* answer 400
requestMessage(request) ==
  IF request.channel = "get"
  THEN IF request.value.t = "str" /\ request.value.s # <<>>
          /\ Trim(request.value.s) # <<>>
       THEN Some(request.value.s) ELSE None
  ELSE LET message == readMessage(request)
       IN  IF ~IsSome(message) \/ Get(message) = <<>> THEN None ELSE message

\* process.env.OPENROUTER_API_KEY ?? process.env.qwen_api_key
apiKey(environment) ==
  IF environment.OPENROUTER_API_KEY.t = "undefined"
  THEN environment.qwen_api_key ELSE environment.OPENROUTER_API_KEY

\* GET, POST: a request arrives.  Without a message it is answered 400;
\* else handleMessage runs up to its first pending network call.
Receive(request) ==
  /\ req.pc = "idle"
  /\ served < MaxRequests
  /\ served' = served + 1
  /\ LET message == requestMessage(request)
     IN  IF ~IsSome(message)
         THEN req' = [IdleRequest EXCEPT !.pc = "done", !.request = request,
                                         !.response = "400"]
         ELSE LET r == [localExtraction(Get(message)) EXCEPT !.request = request]
              IN  IF r.needAI /\ Truthy(apiKey(env))
                  THEN req' = [r EXCEPT !.pc = "oracle", !.oracleCalls = 1]
                  ELSE req' \in afterOracle(r, None, env, fxCache, now)
  /\ UNCHANGED <<env, now, fxCache, transactions, calls, callSeq, fxLog, corrections, settings, serverCalls>>

\* the fetch of the oracle settles
OracleReturn(outcome) ==
  /\ req.pc = "oracle"
  /\ req' \in afterOracle(req, extractWithOpenRouter(outcome), env, fxCache, now)
  /\ UNCHANGED <<env, now, fxCache, transactions, served, calls, callSeq, fxLog, corrections, settings, serverCalls>>

\* the fetch of the rate service settles
RateReturn(res) ==
  /\ req.pc = "fetch"
  /\ LET result == rateAfterFetch(req.originalCurrency, res, fxCache, req.rateNow)
     IN  /\ fxCache' = result.cache
         /\ req' \in afterRate(req, result, "net")
  /\ UNCHANGED <<env, now, transactions, served, calls, callSeq, fxLog, corrections, settings, serverCalls>>

\* the history query answers
HistoryReturn(result) ==
  /\ req.pc = "history"
  /\ req' = assemble(req, result.data)
  /\ UNCHANGED <<env, now, fxCache, transactions, served, calls, callSeq, fxLog, corrections, settings, serverCalls>>

InsertReturn_alwaysSuccess(ok) ==
  /\ req.pc = "insert"
  /\ transactions' = IF ok
                     THEN Append(transactions,
                            [merchant |-> Get(req.record).merchant,
                             category |-> Get(req.record).category,
                             include_in_insights |-> Get(req.record).include_in_insights,
                             created_at |-> storedCreatedAt(Get(req.record), now)])
                     ELSE transactions
  /\ req' = [req EXCEPT !.pc = "done", !.inserted = ok, !.insertError = ~ok,
                        !.response = "success"]
  /\ UNCHANGED <<env, now, fxCache, served, calls, callSeq, fxLog, corrections, settings, serverCalls>>

\* the insert answers: the row is stored, or the insert failed
InsertReturn(ok) ==
  /\ req.pc = "insert"
  /\ IF ok
     THEN /\ transactions' = Append(transactions,
                [merchant |-> Get(req.record).merchant,
                 category |-> Get(req.record).category,
                 include_in_insights |-> Get(req.record).include_in_insights,
                 created_at |-> storedCreatedAt(Get(req.record), now)])
          /\ req' = [req EXCEPT !.pc = "done", !.inserted = TRUE, !.response = "success"]
     ELSE /\ transactions' = transactions
          /\ req' = [req EXCEPT !.pc = "done", !.insertError = TRUE, !.response = "500"]
  /\ UNCHANGED <<env, now, fxCache, served, calls, callSeq, fxLog, corrections, settings, serverCalls>>

\* the response has been sent
Respond ==
  /\ req.pc = "done"
  /\ req' = IdleRequest
  /\ UNCHANGED <<env, now, fxCache, transactions, served, calls, callSeq, fxLog, corrections, settings, serverCalls>>

\* time passes.  Date.now() is read only by getToEgpRate, which a request
\* enters on arrival or when the oracle answers: the clock is stepped only
\* before those points (steps at other points commute with the request).
Tick ==
  /\ req.pc \in {"idle", "oracle"}
  /\ now + TickHours * Hour <= MaxHours * Hour
  /\ now' = now + TickHours * Hour
  /\ UNCHANGED <<env, fxCache, transactions, req, served, calls, callSeq, fxLog, corrections, settings, serverCalls>>

Next ==
  \/ \E request \in Requests : Receive(request)
  \/ \E outcome \in OracleOutcomes : OracleReturn(outcome)
  \/ \E res \in FxResponses : RateReturn(res)
  \/ \E result \in historyResults(transactions, req.merchantName) : HistoryReturn(result)
  \/ \E ok \in BOOLEAN : InsertReturn(ok)
  \/ Respond
  \/ Tick

Spec == Init /\ [][Next]_vars

\* the messages of the runs checked for termination: one with a foreign
\* amount and no merchant, one with nothing to extract, the example message
LiveRequests ==
  {[channel |-> "json", value |-> JsStr(m)] :
     m \in {Words(<<"you", "were", "Charged", "for", "usd", "1,500.00">>),
            Words(<<"hello">>),
            CanonicalMessage("#5233", "EGP", "150.00", <<"Starbucks">>)}}

NextLive ==
  \/ \E request \in LiveRequests : Receive(request)
  \/ \E outcome \in OracleOutcomes : OracleReturn(outcome)
  \/ \E res \in FxResponses : RateReturn(res)
  \/ \E result \in historyResults(transactions, req.merchantName) : HistoryReturn(result)
  \/ \E ok \in BOOLEAN : InsertReturn(ok)
  \/ Respond

\* the environment in which both outbound calls are made: the oracle key is
\* set and no rate override is
InitLive == Init /\ Truthy(apiKey(env)) /\ \A c \in Foreign : envRate(env, c) = None

\* every call a request waits for is answered or fails: the fetch of the
\* oracle, the fetch of the rate service, the history query and the insert
\* settle
SpecLive ==
  /\ InitLive /\ [][NextLive]_vars
  /\ WF_vars(\E outcome \in OracleOutcomes : OracleReturn(outcome))
  /\ WF_vars(\E res \in FxResponses : RateReturn(res))
  /\ WF_vars(\E result \in historyResults(transactions, req.merchantName) :
               HistoryReturn(result))
  /\ WF_vars(\E ok \in BOOLEAN : InsertReturn(ok))

----------------------------------------------------------------------------
(* getToEgpRate called by concurrent requests: each call runs up to its    *)
(* fetch, is suspended there, and resumes when the fetch settles.          *)

\* a call starts: it returns at once (base currency, override, fresh cache
\* entry) or reads the clock and sends the fetch
CallRate(currency) ==
  /\ Len(calls) < NumCallers
  /\ callSeq < MaxCalls
  /\ callSeq' = callSeq + 1
  /\ LET rb == rateBeforeFetch(currency, env, fxCache, now)
     IN  IF rb.kind = "return"
         THEN /\ fxLog' = Append(fxLog,
                    [currency |-> currency, seq |-> callSeq + 1, start |-> now,
                     startIdx |-> Len(fxLog), kind |-> "return", rate |-> rb.rate,
                     src |-> rb.src, net |-> FALSE,
                     age |-> IF rb.src = "cache" THEN now - Get(fxCache[currency]).at ELSE 0])
              /\ calls' = calls
         ELSE /\ calls' = Append(calls,
                    [currency |-> currency, now |-> now,
                     seq |-> callSeq + 1, startIdx |-> Len(fxLog)])
              /\ fxLog' = fxLog
  /\ UNCHANGED <<env, now, fxCache, transactions, req, served, corrections, settings, serverCalls>>

\* the sequence s without its i-th element
RemoveAt(s, i) == SubSeq(s, 1, i - 1) \o SubSeq(s, i + 1, Len(s))

\* the fetch of the i-th suspended call settles: the call throws, or stores
\* the rate with the time it read before the fetch and returns it
FetchSettle(i, res) ==
  /\ i \in 1..Len(calls)
  /\ LET result == rateAfterFetch(calls[i].currency, res, fxCache, calls[i].now)
     IN  /\ fxCache' = result.cache
         /\ fxLog' = Append(fxLog,
               [currency |-> calls[i].currency, seq |-> calls[i].seq,
                start |-> calls[i].now, startIdx |-> calls[i].startIdx,
                kind |-> result.kind, rate |-> result.rate,
                src |-> "net", net |-> TRUE, age |-> 0])
  /\ calls' = RemoveAt(calls, i)
  /\ UNCHANGED <<env, now, transactions, req, served, callSeq, corrections, settings, serverCalls>>

NextFx ==
  \/ \E currency \in SupportedCurrency : CallRate(currency)
  \/ \E i \in 1..NumCallers, res \in FxResponses : FetchSettle(i, res)
  \/ Tick

SpecFx == Init /\ [][NextFx]_vars

----------------------------------------------------------------------------
(* Manual category corrections between and during the handling of          *)
(* messages.  The id of a stored row is its position in the table.         *)

\* bound: corrections made
MaxUpdates == 1

updateTransactionCategory_oneRow(table, merchant, newCategory, scope, transactionId) ==
  [i \in 1..Len(table) |->
     IF i = transactionId THEN [table[i] EXCEPT !.category = newCategory] ELSE table[i]]

\* the table after the update of updateTransactionCategory: the row of the
\* id for scope single, every row of the merchant for scope merchant
updateTransactionCategory(table, merchant, newCategory, scope, transactionId) ==
  [i \in 1..Len(table) |->
     IF \/ scope = "single" /\ i = transactionId
        \/ scope = "merchant" /\ table[i].merchant = merchant
     THEN [table[i] EXCEPT !.category = newCategory]
     ELSE table[i]]

\* the categories a user picks
SelectedCategories == {<<"Education">>}

\* applyCategoryChange for the stored row id: updateTransactionCategory is
\* called with the row's merchant; the update is made, or fails and leaves
\* the table as it was.  The handling of a message reads the table in its
\* history lookup and writes it in its insert, each in one step: a
\* correction is placed anywhere between the steps.
UpdateCategory(id, newCategory, scope, ok) ==
  /\ Len(corrections) < MaxUpdates
  /\ id \in 1..Len(transactions)
  /\ transactions' =
       IF ok
       THEN updateTransactionCategory(transactions, transactions[id].merchant,
                                      newCategory, scope, id)
       ELSE transactions
  /\ corrections' = Append(corrections,
        [merchant |-> transactions[id].merchant, category |-> newCategory,
         scope |-> scope, id |-> id, ok |-> ok, served |-> served])
  /\ UNCHANGED <<env, now, fxCache, req, served, calls, callSeq, fxLog, settings, serverCalls>>

\* the requests sent while corrections are made: a known merchant with and
\* without a local amount, the sentinel merchant, a transfer
CategoryRequests ==
  {[channel |-> "json", value |-> JsStr(m)] :
     m \in {Words(<<"purchase", "at", "Starbucks">>),
            CanonicalMessage("#5233", "EGP", "150.00", <<"Starbucks">>),
            Words(<<"hello">>),
            Words(<<"IBAN", "payment", "at", "Starbucks">>)}}

\* the oracle key is not set: with it and with messages in EGP, no oracle
\* call and no rate fetch is ever pending
InitCat == Init /\ ~Truthy(apiKey(env))

NextCat ==
  \/ \E request \in CategoryRequests : Receive(request)
  \/ \E result \in historyResults(transactions, req.merchantName) : HistoryReturn(result)
  \/ \E ok \in BOOLEAN : InsertReturn(ok)
  \/ Respond
  \/ \E id \in 1..Len(transactions), newCategory \in SelectedCategories,
        scope \in {"single", "merchant"}, ok \in BOOLEAN :
       UpdateCategory(id, newCategory, scope, ok)

SpecCat == InitCat /\ [][NextCat]_vars

----------------------------------------------------------------------------
(* updateInsightToggle: calls on stored rows, each request to the database *)
(* answered in a step of its own                                           *)

\* bound: updateInsightToggle calls made
MaxToggles == 2

\* the rows toggled
ToggleIds == {1, 2}

\* updateInsightToggle(transactionId, newValue) is called: with a newValue
\* the UPDATE is sent at once, without one the SELECT of the row's flag is
\* sent first
ToggleCall(id, newValue) ==
  /\ Len(serverCalls.toggles) < MaxToggles
  /\ id \in 1..Len(transactions)
  /\ serverCalls' =
       [serverCalls EXCEPT !.toggles =
          Append(@, [id |-> id, newValue |-> newValue,
                     pc |-> IF newValue = None THEN "select" ELSE "update",
                     valueToSet |-> newValue, result |-> None])]
  /\ UNCHANGED <<env, now, fxCache, transactions, req, served, calls, callSeq,
                 fxLog, corrections, settings>>

\* the SELECT of call i answers: valueToSet is the negation of the flag read,
\* or the call returns success: false on a fetch error
ToggleSelectReturn(i, ok) ==
  /\ i \in 1..Len(serverCalls.toggles)
  /\ serverCalls.toggles[i].pc = "select"
  /\ serverCalls' =
       [serverCalls EXCEPT !.toggles[i] =
          IF ok
          THEN [@ EXCEPT !.pc = "update",
                         !.valueToSet =
                            Some(~transactions[serverCalls.toggles[i].id]
                                    .include_in_insights)]
          ELSE [@ EXCEPT !.pc = "done", !.result = Some("error")]]
  /\ UNCHANGED <<env, now, fxCache, transactions, req, served, calls, callSeq,
                 fxLog, corrections, settings>>

\* the UPDATE of call i answers: the flag is written and the call returns
\* success: true, or the row is left alone and it returns success: false
ToggleUpdateReturn(i, ok) ==
  /\ i \in 1..Len(serverCalls.toggles)
  /\ serverCalls.toggles[i].pc = "update"
  /\ transactions' =
       IF ok
       THEN [transactions EXCEPT ![serverCalls.toggles[i].id].include_in_insights =
               Get(serverCalls.toggles[i].valueToSet)]
       ELSE transactions
  /\ serverCalls' =
       [serverCalls EXCEPT !.toggles[i] =
          [@ EXCEPT !.pc = "done",
                    !.result = IF ok THEN Some("success") ELSE Some("error")]]
  /\ UNCHANGED <<env, now, fxCache, req, served, calls, callSeq, fxLog,
                 corrections, settings>>

NextToggle ==
  \/ \E id \in ToggleIds, newValue \in {None, Some(TRUE), Some(FALSE)} :
       ToggleCall(id, newValue)
  \/ \E i \in 1..MaxToggles, ok \in BOOLEAN : ToggleSelectReturn(i, ok)
  \/ \E i \in 1..MaxToggles, ok \in BOOLEAN : ToggleUpdateReturn(i, ok)

SpecToggle == InitCat /\ [][NextToggle]_vars

----------------------------------------------------------------------------
(* renameCategory: three updates, each answered in a step of its own       *)

\* bound: renameCategory calls made, one after the other
MaxRenames == 1

\* the names renamed: categories with rows, and one with none; the new
\* names: a fresh one, and one another category already has
OldNames == {<<"Food">>, <<"Bills">>, <<"Healthcare">>, <<"Travel">>}

NewNames == {<<"Dining">>, <<"Shopping">>}

\* update categories set name = newName where name = oldName
renameInCategories(categories, oldName, newName) ==
  {IF c = oldName THEN newName ELSE c : c \in categories}

\* name is unique: the update is rejected when it would make two rows equal
nameTaken(categories, oldName, newName) ==
  oldName \in categories /\ newName \in categories /\ newName # oldName

\* update transactions set category = newName where category = oldName
renameInTransactions(rows, oldName, newName) ==
  [k \in 1..Len(rows) |->
     IF rows[k].category = oldName
     THEN [rows[k] EXCEPT !.category = newName] ELSE rows[k]]

\* update merchant_settings set category_name = newName, updated_at = now
\* where category_name = oldName
renameInMerchantSettings(rows, oldName, newName, nowMs) ==
  {IF m.category_name = oldName
   THEN [m EXCEPT !.category_name = newName, !.updated_at = nowMs]
   ELSE m : m \in rows}

\* the last call has returned, or none was made
NoRenameRunning ==
  \A i \in 1..Len(serverCalls.renames) : serverCalls.renames[i].pc = "done"

\* renameCategory(oldName, newName) is called; before holds the three tables
\* as the call found them
RenameCall(oldName, newName) ==
  /\ Len(serverCalls.renames) < MaxRenames
  /\ NoRenameRunning
  /\ serverCalls' =
       [serverCalls EXCEPT !.renames =
          Append(@, [oldName |-> oldName, newName |-> newName,
                     pc |-> "categories", result |-> None,
                     before |-> [settings |-> settings,
                                 transactions |-> transactions]])]
  /\ UNCHANGED <<env, now, fxCache, transactions, req, served, calls, callSeq,
                 fxLog, corrections, settings>>

\* a rename call leaves at pc with an error, or moves on
renameStep(call, ok, next) ==
  IF ok THEN [call EXCEPT !.pc = next,
                          !.result = IF next = "done" THEN Some("success")
                                     ELSE None]
  ELSE [call EXCEPT !.pc = "done", !.result = Some("error")]

\* the update of categories answers
RenameCategories(i, ok) ==
  /\ i \in 1..Len(serverCalls.renames)
  /\ serverCalls.renames[i].pc = "categories"
  /\ LET call == serverCalls.renames[i]
         done == ok /\ ~nameTaken(settings.categories, call.oldName, call.newName)
     IN /\ settings' =
             IF done
             THEN [settings EXCEPT !.categories =
                     renameInCategories(@, call.oldName, call.newName)]
             ELSE settings
        /\ serverCalls' =
             [serverCalls EXCEPT !.renames[i] = renameStep(call, done, "transactions")]
  /\ UNCHANGED <<env, now, fxCache, transactions, req, served, calls, callSeq,
                 fxLog, corrections>>

\* the update of transactions answers
RenameTransactions(i, ok) ==
  /\ i \in 1..Len(serverCalls.renames)
  /\ serverCalls.renames[i].pc = "transactions"
  /\ LET call == serverCalls.renames[i]
     IN /\ transactions' =
             IF ok THEN renameInTransactions(transactions, call.oldName, call.newName)
             ELSE transactions
        /\ serverCalls' =
             [serverCalls EXCEPT !.renames[i] = renameStep(call, ok, "merchant_settings")]
  /\ UNCHANGED <<env, now, fxCache, req, served, calls, callSeq, fxLog,
                 corrections, settings>>

\* the update of merchant_settings answers, and the call returns
RenameMerchantSettings(i, ok) ==
  /\ i \in 1..Len(serverCalls.renames)
  /\ serverCalls.renames[i].pc = "merchant_settings"
  /\ LET call == serverCalls.renames[i]
     IN /\ settings' =
             IF ok
             THEN [settings EXCEPT !.merchant_settings =
                     renameInMerchantSettings(@, call.oldName, call.newName, now)]
             ELSE settings
        /\ serverCalls' =
             [serverCalls EXCEPT !.renames[i] = renameStep(call, ok, "done")]
  /\ UNCHANGED <<env, now, fxCache, transactions, req, served, calls, callSeq,
                 fxLog, corrections>>

NextRename ==
  \/ \E oldName \in OldNames, newName \in NewNames : RenameCall(oldName, newName)
  \/ \E i \in 1..MaxRenames, ok \in BOOLEAN : RenameCategories(i, ok)
  \/ \E i \in 1..MaxRenames, ok \in BOOLEAN : RenameTransactions(i, ok)
  \/ \E i \in 1..MaxRenames, ok \in BOOLEAN : RenameMerchantSettings(i, ok)
  \/ Tick

SpecRename == InitCat /\ [][NextRename]_vars

----------------------------------------------------------------------------
(* Messages with a timestamp: every date and time lexeme behind each       *)
(* keyword, with and without a 12-hour suffix                              *)

TimestampMessages ==
  {Words(<<"purchase", "at", "Starbucks">> \o tail) :
     tail \in {<<>>, <<"on", "21/12/25">>}
              \cup {<<kw, date, time>> \o suffix :
                      kw \in {"on", "ar_fi"}, date \in DateLex, time \in TimeLex,
                      suffix \in {<<>>, <<"AM">>, <<"PM">>}}}

TimestampRequests ==
  {[channel |-> "json", value |-> JsStr(m)] : m \in TimestampMessages}

NextTs ==
  \/ \E request \in TimestampRequests : Receive(request)
  \/ \E result \in historyResults(transactions, req.merchantName) : HistoryReturn(result)
  \/ \E ok \in BOOLEAN : InsertReturn(ok)
  \/ Respond

SpecTs == InitCat /\ [][NextTs]_vars

----------------------------------------------------------------------------
(* Properties of the pipeline (Spec)                                       *)

\* the record handed to the insert exists
HasRecord == req.pc \in {"insert", "done"} /\ IsSome(req.record)

Rec == Get(req.record)

\* the rows the history answer holds
HistoryRows ==
  IF IsSome(req.existingTransactions) THEN Get(req.existingTransactions) ELSE <<>>

\* C1: a message that holds a transfer keyword is handled up to the insert
\* with a record whose category is Transfers, whose merchant is Transfer and
\* whose insights flag is false, whatever the history holds and whatever
\* the oracle would say.
C1_TransferKeywordOverrides ==
  (req.pc \in {"insert", "done"} /\ isLikelyTransferMessage(req.message))
    => /\ IsSome(req.record)
       /\ Rec.category = <<"Transfers">>
       /\ Rec.merchant = <<"Transfer">>
       /\ Rec.include_in_insights = FALSE

\* a transfer message whose merchant has a stored row of another category
C1_Witness ==
  /\ HasRecord
  /\ isLikelyTransferMessage(req.message)
  /\ req.merchantName = <<"Starbucks">>
  /\ \E i \in 1..Len(transactions) :
        /\ transactions[i].merchant = req.merchantName
        /\ transactions[i].category # <<"Transfers">>
  /\ Rec.category = <<"Transfers">>

\* C2 as stated: whenever a stored row has the resolved merchant, the
\* record carries the category of such a row.
C2_HistoryAlwaysWins ==
  (req.pc = "insert" /\ IsSome(req.record)
   /\ \E i \in 1..Len(transactions) : transactions[i].merchant = req.merchantName)
    => \E i \in 1..Len(transactions) :
          /\ transactions[i].merchant = req.merchantName
          /\ transactions[i].category = Rec.category

\* C2 amended: for a message not classified as a transfer, when the history
\* lookup answers with a row whose category is not empty, the record
\* carries that row's category, which is the category of a stored row of
\* the resolved merchant, even when the oracle returned another category.
C2_HistoryWinsUnlessTransfer ==
  (req.pc = "insert" /\ IsSome(req.record) /\ ~req.transferDetected
   /\ Len(HistoryRows) > 0 /\ HistoryRows[1].category # <<>>)
    => /\ Rec.category = HistoryRows[1].category
       /\ \E i \in 1..Len(transactions) :
             /\ transactions[i].merchant = req.merchantName
             /\ transactions[i].category = Rec.category

\* the history row wins over a different valid category of the oracle
C2_Witness ==
  /\ req.pc = "insert" /\ IsSome(req.record) /\ ~req.transferDetected
  /\ Len(HistoryRows) > 0
  /\ IsSome(req.ai) /\ IsSome(Get(req.ai).category)
  /\ Get(Get(req.ai).category) \in validCategories
  /\ Get(Get(req.ai).category) # HistoryRows[1].category
  /\ Rec.category = HistoryRows[1].category

\* neither the local parsers nor the oracle resolved the field
AmountUnresolved ==
  ~IsSome(req.charged) /\ (~IsSome(req.ai) \/ ~IsSome(Get(req.ai).amount))

MerchantUnresolved ==
  ~IsSome(req.regexMerchant) /\ (~IsSome(req.ai) \/ ~IsSome(Get(req.ai).merchant))

\* C3 as stated: a non-empty message is rejected with a client error, and
\* nothing is assembled for the insert, exactly when both the amount and
\* the merchant are unresolved.
C3_RejectsIffBothUnresolved ==
  (req.pc \in {"insert", "done"} /\ req.message # <<>>)
    => ((AmountUnresolved /\ MerchantUnresolved)
          <=> (req.response = "400" /\ ~IsSome(req.record)))

\* C6: when the rate lookup fails, the stored amount is the unconverted
\* original amount, the request goes on to the insert, and it is answered
\* with success unless the insert itself failed.
C6_RateFailureFallsBack ==
  (req.pc \in {"history", "insert", "done"} /\ req.rateSrc = "failed")
    => /\ req.amountEgp = req.originalAmount
       /\ req.pc \in {"insert", "done"}
            => IsSome(req.record) /\ Rec.amount = req.originalAmount
       /\ req.pc = "done"
            => \/ req.response = "success" /\ req.inserted
               \/ req.response = "500" /\ req.insertError

\* a foreign amount stored unconverted after a failed lookup
C6_Witness ==
  /\ req.pc = "done" /\ req.rateSrc = "failed"
  /\ req.originalCurrency \in Foreign
  /\ req.originalAmount > 0
  /\ req.response = "success" /\ req.inserted
  /\ Rec.amount = req.originalAmount

\* C7 as stated: the stored amount is positive and has at most two
\* decimals.
C7_AmountPositiveTwoDecimals ==
  HasRecord => Rec.amount > 0 /\ Rec.amount % 10 = 0

\* C8 as stated: the stored merchant is not empty.
C8_MerchantNonEmpty ==
  HasRecord => Rec.merchant # <<>>

\* strings of exactly four decimal digits
FourDigitStrings == {<<"5233">>, <<"0001">>, <<"5822">>}

\* C9 as stated: the stored card suffix is null or exactly four digits.
C9_CardNullOrFourDigits ==
  HasRecord => Rec.card_last4 = None \/ Get(Rec.card_last4) \in FourDigitStrings

\* the canonical inputs whose message is the one being handled
Canonical ==
  {c \in CanonicalInputs :
     CanonicalMessage(c.card, c.cur, c.amount, c.merchant) = req.message}

\* no stored row has the merchant
NoHistory(merchant) ==
  \A i \in 1..Len(transactions) : transactions[i].merchant # merchant

\* amountBase is amount * rate rounded to hundredths (all in thousandths)
RoundedProduct(amountBase, amount, rate) ==
  /\ amountBase % 10 = 0
  /\ amountBase * 1000 - amount * rate \in -5000..5000

PlainMerchant(c) ==
  /\ \A i \in 1..Len(c.merchant) : c.merchant[i] \notin PeriodLex \cup DateLex \cup TimeLex
  /\ ~isLikelyTransferMessage(req.message)

----------------------------------------------------------------------------
(* Properties of the rate resolver under concurrent calls (SpecFx)         *)

\* the calls of the log
LogIdx == 1..Len(fxLog)

\* C4 as stated: of two calls for one currency that start less than six
\* hours apart and of which the first returned a rate, the second returns
\* the identical rate and performs no network request.
C4_WithinSixHoursAsStated ==
  \A i, j \in LogIdx :
    (/\ fxLog[i].currency = fxLog[j].currency
     /\ fxLog[i].seq < fxLog[j].seq
     /\ fxLog[j].start - fxLog[i].start < CacheTtl
     /\ fxLog[i].kind = "return")
      => /\ fxLog[j].kind = "return"
         /\ fxLog[j].rate = fxLog[i].rate
         /\ ~fxLog[j].net

\* call j started after call i, which fetched a rate, had returned, less
\* than six hours after call i started, and no other fetch for the currency
\* succeeded after call i returned and before call j started
ReusesFetch(i, j) ==
  /\ fxLog[i].currency = fxLog[j].currency
  /\ fxLog[i].net /\ fxLog[i].kind = "return"
  /\ fxLog[j].startIdx >= i
  /\ fxLog[j].start - fxLog[i].start < CacheTtl
  /\ \A k \in LogIdx :
        (k > i /\ k <= fxLog[j].startIdx /\ fxLog[k].currency = fxLog[i].currency)
          => ~(fxLog[k].net /\ fxLog[k].kind = "return")

\* C4 amended: when a call fetched a rate from the network, every call for
\* that currency that starts after it returned and less than six hours
\* after it started, with no other successful fetch for the currency in
\* between, returns the identical rate and performs no network request.
C4_CachedWithinSixHours ==
  \A i, j \in LogIdx :
    ReusesFetch(i, j)
      => /\ fxLog[j].kind = "return"
         /\ fxLog[j].rate = fxLog[i].rate
         /\ ~fxLog[j].net

\* a rate fetched and returned again from the cache hours later
C4_Witness ==
  \E i, j \in LogIdx :
    /\ ReusesFetch(i, j)
    /\ fxLog[j].start > fxLog[i].start
    /\ fxLog[j].src = "cache"
    /\ fxLog[j].rate = fxLog[i].rate

\* C5: every entry of the rate cache has a rate above zero, every value
\* getToEgpRate returned is above zero, and a cached entry was returned
\* only when it was less than six hours old.
C5_RatesPositiveAndFresh ==
  /\ \A c \in Foreign : IsSome(fxCache[c]) => Get(fxCache[c]).rate > 0
  /\ \A i \in LogIdx :
        /\ fxLog[i].kind = "return" => fxLog[i].rate > 0
        /\ fxLog[i].src = "cache" => fxLog[i].age >= 0 /\ fxLog[i].age < CacheTtl

\* a cached rate returned hours after it was fetched, and fetched anew by
\* a later call
C5_Witness ==
  \E i, j \in LogIdx :
    /\ i < j
    /\ fxLog[i].currency = fxLog[j].currency
    /\ fxLog[i].src = "cache" /\ fxLog[i].age > 0
    /\ fxLog[j].start > fxLog[i].start
    /\ fxLog[j].net /\ fxLog[j].kind = "return"
    /\ IsSome(fxCache[fxLog[j].currency])
    /\ Get(fxCache[fxLog[j].currency]).at = fxLog[j].start

----------------------------------------------------------------------------
(* Further properties of the pipeline (Spec)                               *)

\* C11: the insights flag of the record is true exactly when its merchant,
\* as stored after the transfer override, holds neither "transfer" nor
\* "atm" in any letter case and its category, as stored after the history
\* lookup, is not Transfers.
C11_InsightsFlag ==
  HasRecord
    => Rec.include_in_insights
         = (/\ \A i \in 1..Len(Rec.merchant) :
                  Lower(Rec.merchant[i]) \notin {"transfer", "transfers", "atm", "atmosphere"}
            /\ Rec.category # <<"Transfers">>)

\* a merchant that holds "atm", not a transfer, stored with the flag off
C11_Witness ==
  /\ HasRecord
  /\ \E i \in 1..Len(Rec.merchant) : Lower(Rec.merchant[i]) \in {"atm", "atmosphere"}
  /\ ~req.transferDetected
  /\ Rec.category # <<"Transfers">>
  /\ Rec.include_in_insights = FALSE

\* the row the insert stores
RecordRow ==
  [merchant |-> Rec.merchant, category |-> Rec.category,
   include_in_insights |-> Rec.include_in_insights,
   created_at |-> IF IsSome(Rec.created_at)
                  THEN [default |-> FALSE, ts |-> Rec.created_at, at |-> 0]
                  ELSE [default |-> TRUE, ts |-> None, at |-> now]]

\* C12: the step in which the insert answers ends with a success response
\* and the row stored, or with the server error 500 and the table as it
\* was; a success response is never given for a failed insert.
C12_InsertFailureIsServerError ==
  [][(req.pc = "insert" /\ req'.pc = "done")
       => \/ /\ req'.response = "success"
             /\ transactions' = Append(transactions, RecordRow)
          \/ /\ req'.response = "500"
             /\ transactions' = transactions]_vars

\* a failed insert answered with 500
C12_Witness ==
  /\ req.pc = "done" /\ req.insertError
  /\ req.response = "500"
  /\ IsSome(req.record)
  /\ transactions = InitialTransactions

\* the request carries no message: its body did not parse, or its message
\* is not a string, is empty or holds only whitespace
MessageMissing(request) ==
  \/ request.channel = "badjson"
  \/ request.value.t # "str"
  \/ \A i \in 1..Len(request.value.s) : request.value.s[i] = SP

\* C13: a request without a message, on any channel, is answered with the
\* client error 400 in the step it arrives, and no oracle call, rate
\* lookup, history lookup or insert is made for it.
C13_MissingMessageRejected ==
  (req.pc # "idle" /\ MessageMissing(req.request))
    => /\ req.pc = "done" /\ req.response = "400"
       /\ req.oracleCalls = 0
       /\ req.rateSrc = "none" /\ req.rateCalls = 0
       /\ ~req.queried
       /\ ~IsSome(req.record) /\ ~req.inserted /\ ~req.insertError
       /\ transactions = InitialTransactions \/ served > 1

\* a whitespace-only raw-text body answered 400
C13_Witness ==
  /\ req.pc = "done" /\ req.response = "400"
  /\ req.request.channel = "text"
  /\ req.request.value.s # <<>>
  /\ MessageMissing(req.request)

\* the oracle failed: the fetch was rejected, the status was not OK, the
\* completion was empty or held no JSON
OracleFails(outcome) ==
  \/ outcome.kind \in {"rejected", "http_error", "no_content"}
  \/ outcome.text.form \in {"prose", "broken"}

\* the merged fields are the locally extracted ones or the defaults
LocalFieldsOnly ==
  /\ req.cardNumber = req.parsedCardLast4
  /\ req.originalCurrency
       = (IF IsSome(req.charged) THEN Get(req.charged).currency ELSE "EGP")
  /\ req.originalAmount = (IF IsSome(req.charged) THEN Get(req.charged).amount ELSE 0)
  /\ req.merchantName
       = (IF IsSome(req.regexMerchant) THEN Get(req.regexMerchant) ELSE UnknownMerchant)
  /\ req.transferDetected = req.transferDetectedByText

\* the handling went on without a result of the oracle
WithoutOracle ==
  (req.pc \in {"fetch", "history", "insert", "done"} /\ req.needAI /\ req.ai = None)
    => /\ LocalFieldsOnly
       /\ req.pc \in {"insert", "done"} => IsSome(req.record)
       /\ req.pc = "done"
            => \/ req.response = "success" /\ req.inserted
               \/ req.response = "500" /\ req.insertError

\* C14: a failure of the oracle (no credentials, rejected fetch, non-OK
\* status, empty or unparseable completion) gives no oracle result and
\* raises nothing: the handling goes on in the same step, and a message
\* handled without an oracle result is assembled from the local fields and
\* the defaults and handed to the insert.
C14_OracleFailureDegrades ==
  /\ []WithoutOracle
  /\ [][\A o \in OracleOutcomes :
          (OracleFails(o) /\ OracleReturn(o))
            => req'.ai = None /\ req'.pc \in {"fetch", "history", "insert"}]_vars

\* a message the oracle was asked about in vain, inserted with defaults
C14_Witness ==
  /\ req.pc = "done" /\ req.needAI /\ req.oracleCalls = 1 /\ req.ai = None
  /\ req.merchantName = UnknownMerchant
  /\ req.response = "success" /\ req.inserted

\* the stored rows of the merchant, oldest first
RowsOf(merchant) ==
  {i \in 1..Len(transactions) : transactions[i].merchant = merchant}

\* C15 as stated: the row the history lookup answers with carries the
\* category of the most recent stored row of the merchant.
C15_MostRecentCategory ==
  (req.pc = "insert" /\ Len(HistoryRows) > 0)
    => /\ RowsOf(req.merchantName) # {}
       /\ HistoryRows[1].category
            = transactions[Max(RowsOf(req.merchantName))].category

----------------------------------------------------------------------------
(* Properties of the corrections (SpecCat)                                 *)

\* the successful corrections of a transaction of the merchant
CorrectionsOf(merchant) ==
  {k \in 1..Len(corrections) : corrections[k].ok /\ corrections[k].merchant = merchant}

\* C16 as stated: a message that arrives after the last successful
\* correction of a transaction of its merchant, of either scope, and is
\* not a transfer, is assigned the corrected category.
C16_CorrectionSticksAsStated ==
  (req.pc = "insert" /\ IsSome(req.record) /\ ~req.transferDetected
   /\ CorrectionsOf(req.merchantName) # {})
    => LET c == corrections[Max(CorrectionsOf(req.merchantName))]
       IN  c.served < served => Rec.category = c.category

\* a successful correction of the merchant, of either scope, whose category
\* every stored row of the merchant carries
StickyCategory(merchant, category) ==
  /\ category # <<>>
  /\ RowsOf(merchant) # {}
  /\ \A i \in RowsOf(merchant) : transactions[i].category = category
  /\ \E k \in CorrectionsOf(merchant) : corrections[k].category = category

\* C16 amended: a successful correction of scope merchant leaves every
\* stored row of the merchant with the new category, and one of scope single
\* changes the category of the one row and of no other; a message that is
\* not a transfer, whose merchant was corrected and whose history lookup is
\* answered while every row of the merchant carries the corrected category,
\* is assigned it.
C16_MerchantCorrectionSticks ==
  /\ [][(Len(corrections') > Len(corrections) /\ corrections'[Len(corrections')].ok)
          => LET c == corrections'[Len(corrections')]
             IN  \A i \in 1..Len(transactions') :
                    transactions'[i].category =
                      IF \/ c.scope = "merchant" /\ transactions[i].merchant = c.merchant
                         \/ c.scope = "single" /\ i = c.id
                      THEN c.category
                      ELSE transactions[i].category]_vars
  /\ [][\A category \in SelectedCategories :
          (/\ req.pc = "history" /\ req'.pc = "insert"
           /\ ~req.transferDetected
           /\ IsSome(req'.existingTransactions)
           /\ StickyCategory(req.merchantName, category))
            => Get(req'.record).category = category]_vars

\* a message of a corrected merchant assigned the corrected category, which
\* no stored row carried before
C16_Witness ==
  /\ req.pc = "insert" /\ IsSome(req.record) /\ ~req.transferDetected
  /\ \E category \in SelectedCategories :
        /\ StickyCategory(req.merchantName, category)
        /\ Rec.category = category
        /\ \A i \in 1..Len(InitialTransactions) :
              InitialTransactions[i].category # category
  /\ \E k \in CorrectionsOf(req.merchantName) : corrections[k].served < served

----------------------------------------------------------------------------
(* Properties of the rate cache under concurrent calls (SpecFx)            *)

\* call i fetched a rate for the currency and returned it
Fetched(i, currency) ==
  fxLog[i].currency = currency /\ fxLog[i].net /\ fxLog[i].kind = "return"

\* C17: under every interleaving of getToEgpRate calls suspended at their
\* fetch, each cache entry is the rate and the time of one successful
\* fetch for its own currency, and every rate returned for a foreign
\* currency is the configured override, the quote of an earlier successful
\* fetch for the currency cached less than six hours before, or the rate
\* the call fetched itself; the base currency returns 1.
C17_CacheSafeUnderConcurrency ==
  /\ \A c \in Foreign :
        IsSome(fxCache[c])
          => \E i \in LogIdx :
                /\ Fetched(i, c)
                /\ Get(fxCache[c]) = [rate |-> fxLog[i].rate, at |-> fxLog[i].start]
  /\ \A j \in LogIdx :
        fxLog[j].kind = "return"
          => \/ fxLog[j].currency = "EGP" /\ fxLog[j].rate = 1000 /\ ~fxLog[j].net
             \/ /\ fxLog[j].currency \in Foreign
                /\ fxLog[j].src = "env" /\ ~fxLog[j].net
                /\ Some(fxLog[j].rate) = envRate(env, fxLog[j].currency)
             \/ /\ fxLog[j].currency \in Foreign
                /\ fxLog[j].src = "cache" /\ ~fxLog[j].net
                /\ \E i \in 1..fxLog[j].startIdx :
                      /\ Fetched(i, fxLog[j].currency)
                      /\ fxLog[j].rate = fxLog[i].rate
                      /\ fxLog[j].start - fxLog[i].start = fxLog[j].age
                      /\ fxLog[j].age < CacheTtl
             \/ /\ fxLog[j].currency \in Foreign
                /\ fxLog[j].src = "net" /\ fxLog[j].net

\* two calls for one currency suspended at their fetch together, both
\* fetches answered with different rates, and a third call served from the
\* cache with the rate the cache holds
C17_Witness ==
  \E i, j, k \in LogIdx :
    /\ i < j /\ j < k
    /\ Fetched(i, fxLog[i].currency) /\ Fetched(j, fxLog[i].currency)
    /\ fxLog[j].startIdx < i
    /\ fxLog[i].rate # fxLog[j].rate
    /\ fxLog[k].currency = fxLog[i].currency /\ fxLog[k].src = "cache"
    /\ fxLog[k].rate = Get(fxCache[fxLog[i].currency]).rate

\* the number the override variable of the currency holds
OverrideNumber(currency) == ToNumber(env[envKey(currency)])

\* a valid override is configured for the currency: finite and above zero
ValidOverride(currency) ==
  OverrideNumber(currency).t = "num" /\ OverrideNumber(currency).v > 0

\* caches without entries, and with entries just written, within the six
\* hours and six hours old, of a rate no override holds
SampleCaches ==
  {[c \in Foreign |-> None]} \cup
  {[c \in Foreign |-> Some([rate |-> 48105, at |-> now - age])] :
     age \in {0, CacheTtl - Hour, CacheTtl}}

\* C18: a call for a foreign currency with a valid override returns the
\* override at once, with no fetch, whatever the cache holds, and leaves the
\* cache as it was; with an absent or invalid override it returns the cached
\* rate when the entry is less than six hours old, and otherwise sends the
\* fetch.
C18_OverrideFirst ==
  /\ [](\A c \in Foreign :
          ValidOverride(c)
            => \A cache \in SampleCaches :
                  rateBeforeFetch(c, env, cache, now) =
                    [kind |-> "return", rate |-> OverrideNumber(c).v, src |-> "env"])
  /\ [][callSeq' = callSeq + 1
          => LET returned == Len(fxLog') > Len(fxLog)
                 last     == fxLog'[Len(fxLog')]
                 c        == IF returned THEN last.currency
                             ELSE calls'[Len(calls')].currency
             IN  c \in Foreign
                   => IF ValidOverride(c)
                      THEN /\ returned /\ calls' = calls /\ fxCache' = fxCache
                           /\ last.kind = "return" /\ last.src = "env" /\ ~last.net
                           /\ last.rate = OverrideNumber(c).v
                      ELSE IF IsSome(fxCache[c]) /\ now - Get(fxCache[c]).at < CacheTtl
                      THEN /\ returned /\ calls' = calls /\ fxCache' = fxCache
                           /\ last.kind = "return" /\ last.src = "cache" /\ ~last.net
                           /\ last.rate = Get(fxCache[c]).rate
                      ELSE /\ ~returned /\ Len(calls') = Len(calls) + 1
                           /\ fxCache' = fxCache]_vars

\* one environment in which a call returned the valid override of its
\* currency while a call for the currency with the non-numeric override
\* fetched a rate and a later one was served from the cache
C18_Witness ==
  \E i, j, k \in LogIdx :
    /\ ValidOverride(fxLog[i].currency)
    /\ fxLog[i].src = "env" /\ fxLog[i].rate = OverrideNumber(fxLog[i].currency).v
    /\ ~ValidOverride(fxLog[j].currency) /\ Truthy(env[envKey(fxLog[j].currency)])
    /\ Fetched(j, fxLog[j].currency)
    /\ j < k /\ fxLog[k].currency = fxLog[j].currency /\ fxLog[k].src = "cache"

\* the cache holds an entry of the currency that is six hours old or older
Expired(currency) ==
  IsSome(fxCache[currency]) /\ now - Get(fxCache[currency]).at >= CacheTtl

\* C19: a cache entry six hours old or older is never returned: a call for
\* its currency with no valid override sends the fetch; a fetch that
\* succeeds stores its rate with the time its call read, which is six hours
\* or more after the time of the expired entry the call found; and an entry
\* changes only by such a store, so that no entry's time moves without a
\* rate fetched.
C19_ExpiredEntriesReplaced ==
  /\ [](\A j \in LogIdx : fxLog[j].src = "cache" => fxLog[j].age < CacheTtl)
  /\ [][\A c \in Foreign :
          (/\ callSeq' = callSeq + 1
           /\ ~ValidOverride(c) /\ Expired(c)
           /\ IF Len(fxLog') > Len(fxLog) THEN fxLog'[Len(fxLog')].currency = c
               ELSE calls'[Len(calls')].currency = c)
            => /\ Len(fxLog') = Len(fxLog) /\ Len(calls') = Len(calls) + 1
               /\ calls'[Len(calls')].now = now
               /\ fxCache' = fxCache]_vars
  /\ [][\A c \in Foreign :
          (/\ Len(fxLog') > Len(fxLog)
           /\ fxLog'[Len(fxLog')].currency = c
           /\ fxLog'[Len(fxLog')].net /\ fxLog'[Len(fxLog')].kind = "return")
            => LET last == fxLog'[Len(fxLog')]
               IN  /\ fxCache'[c] = Some([rate |-> last.rate, at |-> last.start])
                   /\ \A i \in 1..last.startIdx :
                         (Fetched(i, c) /\ fxLog[i].start <= last.start
                          /\ \A k \in (i + 1)..last.startIdx : ~Fetched(k, c))
                           => last.start - fxLog[i].start >= CacheTtl]_vars
  /\ [][\A c \in Foreign :
          fxCache'[c] # fxCache[c]
            => /\ Len(fxLog') = Len(fxLog) + 1
               /\ fxLog'[Len(fxLog')].currency = c
               /\ fxLog'[Len(fxLog')].net /\ fxLog'[Len(fxLog')].kind = "return"
               /\ fxCache'[c] = Some([rate |-> fxLog'[Len(fxLog')].rate,
                                       at   |-> fxLog'[Len(fxLog')].start])]_vars

\* a rate fetched, a call exactly six hours later that found the entry and
\* fetched again, and the cache holding the second rate with the later time
C19_Witness ==
  \E i, k \in LogIdx :
    /\ Fetched(i, fxLog[i].currency) /\ Fetched(k, fxLog[i].currency)
    /\ fxLog[k].startIdx >= i
    /\ \A j \in 1..fxLog[k].startIdx : Fetched(j, fxLog[i].currency) => j = i
    /\ fxLog[k].start - fxLog[i].start = CacheTtl
    /\ fxLog[k].rate # fxLog[i].rate
    /\ fxCache[fxLog[i].currency] = Some([rate |-> fxLog[k].rate, at |-> fxLog[k].start])

----------------------------------------------------------------------------
(* Properties of the oracle call (Spec)                                    *)

\* the local extraction of the message handled found no merchant, or no
\* amount
LocalIncomplete ==
  \/ parseMerchant(req.message) \in {None, Some(<<>>)}
  \/ parseChargedAmount(req.message) = None

\* C20: the oracle is called for a message only when its local merchant or
\* its local amount is missing and the keyword test does not classify it as
\* a transfer; when both are present, or the keyword test is true, no
\* oracle call is made and no oracle field is used.
C20_OracleOnlyWhenNeeded ==
  /\ req.pc = "oracle" => req.oracleCalls = 1
  /\ req.oracleCalls \in {0, 1}
  /\ req.oracleCalls = 1
       => LocalIncomplete /\ ~isLikelyTransferMessage(req.message)
  /\ (req.pc \notin {"idle"} /\ req.response # "400"
      /\ (~LocalIncomplete \/ isLikelyTransferMessage(req.message)))
       => req.oracleCalls = 0 /\ req.pc # "oracle" /\ req.ai = None

\* a message with a local amount and no local merchant, not a transfer by
\* its keywords, for which the oracle was called and answered with fields
C20_Witness ==
  /\ HasRecord
  /\ req.oracleCalls = 1 /\ IsSome(req.ai)
  /\ parseMerchant(req.message) = None
  /\ IsSome(parseChargedAmount(req.message))
  /\ ~isLikelyTransferMessage(req.message)

----------------------------------------------------------------------------
(* Properties of the merge and of the category (Spec)                      *)

\* the message handled is past the merge of handleMessage
Merged == req.pc \notin {"idle", "oracle"} /\ req.response # "400"

\* the value of the oracle's field, absent without an oracle result
OracleField(f) == IF IsSome(req.ai) THEN Get(req.ai)[f] ELSE None

\* the first of the local value, the oracle's value and the default that
\* is present
Preferred(local, oracle, default) ==
  IF IsSome(local) THEN local ELSE IF IsSome(oracle) THEN oracle ELSE default

NoPriorCategory(merchant) ==
  \A i \in 1..Len(transactions) :
    transactions[i].merchant = merchant => transactions[i].category = <<>>

\* C22: for a message that is not transfer-classified and whose merchant
\* has no prior category, the category of the record is the oracle's
\* category when that is one of the valid categories and "Other" otherwise,
\* also without an oracle result; the category of a record is never empty.
C22_OracleCategoryOrOther ==
  (req.pc = "insert" /\ IsSome(req.record))
    => /\ Rec.category # <<>>
       /\ (~req.transferDetected /\ NoPriorCategory(req.merchantName))
            => Rec.category =
                 IF OracleField("category") \in {Some(c) : c \in validCategories}
                 THEN Get(OracleField("category"))
                 ELSE <<"Other">>

\* a merchant whose only stored row has an empty category, categorised by
\* the oracle with a valid category other than "Other"
C22_Witness ==
  /\ req.pc = "insert" /\ IsSome(req.record) /\ ~req.transferDetected
  /\ NoPriorCategory(req.merchantName)
  /\ \E i \in 1..Len(transactions) : transactions[i].merchant = req.merchantName
  /\ IsSome(req.existingTransactions) /\ Len(Get(req.existingTransactions)) > 0
  /\ IsSome(OracleField("category"))
  /\ Rec.category = Get(OracleField("category"))
  /\ Rec.category # <<"Other">>

----------------------------------------------------------------------------
(* Properties of the oracle adapter (Spec)                                 *)

\* the outcome is a completion that holds a JSON document
HoldsDocument(outcome) ==
  outcome.kind = "content" /\ IsSome(extractJsonObject(outcome.text))

\* C23: the adapter raises nothing, and in the AIExtraction it returns for
\* a document a field is absent whenever the document's field is null,
\* missing or of the wrong type: a string field is present only for a
\* string, is_transfer only for a boolean, the amount only for a finite
\* number, the currency only as EGP, USD or EUR.
C23_InvalidFieldsAbsent ==
  [][\A o \in OracleOutcomes :
       (HoldsDocument(o) /\ OracleReturn(o))
         => LET d  == Get(extractJsonObject(o.text))
                ai == Get(req'.ai)
            IN  /\ IsSome(req'.ai)
                /\ req'.pc \in {"fetch", "history", "insert"}
                /\ IsSome(ai.merchant) => d.merchant.t = "str"
                /\ IsSome(ai.card_last4) => d.card_last4.t = "str"
                /\ IsSome(ai.category) => d.category.t = "str"
                /\ IsSome(ai.is_transfer) => d.is_transfer.t = "bool"
                /\ IsSome(ai.amount) => d.amount.t = "num"
                /\ IsSome(ai.currency)
                     => d.currency.t = "str" /\ Get(ai.currency) \in SupportedCurrency]_vars

----------------------------------------------------------------------------
(* Properties of the message timestamp (SpecTs)                            *)

\* the first place of the message where the timestamp pattern matches
FirstTimestamp ==
  LET M == {i \in 1..Len(req.message) : IsSome(TimestampAt(req.message, i))}
  IN  IF M = {} THEN None ELSE TimestampAt(req.message, Min(M))

\* day, month, hour or minute of the match is out of range
OutOfRange(match) ==
  \/ DateParts(match.date).m \notin 1..12
  \/ DateParts(match.date).d \notin 1..31
  \/ TimeParts(match.time).h \notin 0..23
  \/ TimeParts(match.time).mi \notin 0..59

\* C24: parseMessageTimestamp returns nothing when the pattern does not
\* match or when the month is outside 1-12, the day outside 1-31, the hour
\* outside 0-23 or the minute outside 0-59, and the handling goes on; the
\* timestamp it returns has the year 2000+YY for a 2-digit year YY, the
\* month, day and minute of the message, and an hour in 0-23 that is 0 for
\* 12 AM, the hour plus 12 for a PM hour below 12 and the hour otherwise.
C24_TimestampInRange ==
  Merged =>
    IF FirstTimestamp = None THEN req.parsedMessageTimestamp = None
    ELSE LET match == Get(FirstTimestamp)
             date  == DateParts(match.date)
             time  == TimeParts(match.time)
         IN  IF OutOfRange(match) THEN req.parsedMessageTimestamp = None
             ELSE /\ IsSome(req.parsedMessageTimestamp)
                  /\ LET ts == Get(req.parsedMessageTimestamp)
                     IN  /\ date.y \in 0..99 => ts.y = 2000 + date.y
                         /\ date.y >= 100 => ts.y = date.y
                         /\ ts.m = date.m /\ ts.d = date.d /\ ts.mi = time.mi
                         /\ ts.h \in 0..23
                         /\ ts.h = CASE match.ampm = "am" /\ time.h = 12 -> 0
                                     [] match.ampm = "pm" /\ time.h < 12 -> time.h + 12
                                     [] OTHER -> time.h

\* a message dated with a 2-digit year and a PM hour, handed to the insert
\* with the year 2025 and the hour 23
C24_Witness ==
  /\ HasRecord
  /\ IsSome(FirstTimestamp)
  /\ DateParts(Get(FirstTimestamp).date).y = 25
  /\ Get(FirstTimestamp).ampm = "pm" /\ TimeParts(Get(FirstTimestamp).time).h = 11
  /\ req.parsedMessageTimestamp
       = Some([y |-> 2025, m |-> 12, d |-> 21, h |-> 23, mi |-> 15])

----------------------------------------------------------------------------
(* Properties of the stored time (Spec)                                    *)

\* the row stored for the message handled
StoredRow == transactions[Len(transactions)]

\* C25: the created_at stored for an ingested message is the timestamp
\* parsed from the message when there is one, and otherwise the time of the
\* insert given by the table's default; a parsed timestamp is never
\* replaced by the time of the insert.
C25_OccurredAtFromMessage ==
  (req.pc = "done" /\ req.inserted)
    => LET parsed == parseMessageTimestamp(req.message)
       IN  IF IsSome(parsed)
           THEN /\ ~StoredRow.created_at.default
                /\ StoredRow.created_at.ts = parsed
           ELSE /\ StoredRow.created_at.default
                /\ StoredRow.created_at.at = now

\* a message dated 21/12/25 11:15 PM ingested hours after the start: the
\* row carries the time of the message
C25_Witness ==
  /\ req.pc = "done" /\ req.inserted
  /\ now > 0
  /\ StoredRow.merchant = Rec.merchant
  /\ StoredRow.created_at
       = [default |-> FALSE,
          ts |-> Some([y |-> 2025, m |-> 12, d |-> 21, h |-> 23, mi |-> 15]),
          at |-> 0]

----------------------------------------------------------------------------
(* Properties of the outbound calls of one message (SpecLive)              *)

\* the request waits for a call to settle
Waiting == req.pc \in {"oracle", "fetch", "history", "insert"}

\* C26: the handling of one message makes at most one call of the oracle
\* and at most one call of the rate service; when a call settles, failed or
\* not, the handling moves on and never returns to a call it has made; and
\* once every call it waits for settles, the request is answered.
C26_SingleCallsAndResponse ==
  /\ [](req.oracleCalls \in {0, 1} /\ req.rateCalls \in {0, 1})
  /\ [][req' # req
          => /\ req.pc = "oracle" => req'.pc \in {"fetch", "history", "insert"}
             /\ req.pc = "fetch" => req'.pc \in {"history", "insert"}
             /\ req.pc = "history" => req'.pc = "insert"
             /\ req.pc = "insert" => req'.pc = "done"
             /\ req.pc \notin {"idle", "done"}
                  => /\ req'.oracleCalls = req.oracleCalls
                     /\ req'.rateCalls >= req.rateCalls
                     /\ req.pc # "oracle" => req'.rateCalls = req.rateCalls]_vars
  /\ (Waiting ~> (req.pc = "done" /\ req.response \in {"success", "500"}))

\* a message answered after one call of the oracle and one call of the
\* rate service that failed
C26_Witness ==
  /\ req.pc = "done" /\ req.response = "success"
  /\ req.oracleCalls = 1 /\ IsSome(req.ai)
  /\ req.rateCalls = 1 /\ req.rateSrc = "failed"

----------------------------------------------------------------------------
(* Properties of the cache entries over time (SpecFx)                      *)

\* C27: for each currency, the time stored in the rate cache never
\* decreases, in any interleaving of getToEgpRate calls: an entry stays,
\* or is replaced by one with the same or a later time.
C27_ObservedAtNeverDecreases ==
  [][\A c \in Foreign :
       IsSome(fxCache[c])
         => IsSome(fxCache'[c]) /\ Get(fxCache'[c]).at >= Get(fxCache[c]).at]_vars

\* the lookup fails on the response: the fetch is rejected, the status is
\* not OK, the body is not JSON, or the EGP rate is missing, not a finite
\* number or not above zero
FailedResponse(res) ==
  \/ res.kind \in {"rejected", "http_error", "bad_json"}
  \/ res.kind = "json" /\ ~(res.egp.t = "num" /\ res.egp.v > 0)

\* caches without entries and with an expired entry of each currency
CachesBeforeFetch ==
  {[c \in Foreign |-> None]} \cup
  {[c \in Foreign |-> IF c = k THEN Some([rate |-> 48105, at |-> 0]) ELSE None] :
     k \in Foreign}

\* after the fetch, getToEgpRate throws for the failed responses and for no
\* other, and then hands back the cache it found
FailuresThrow ==
  \A res \in FxResponses, c \in Foreign, cache \in CachesBeforeFetch :
    LET result == rateAfterFetch(c, res, cache, CacheTtl)
    IN  IF FailedResponse(res)
        THEN result.kind = "throw" /\ result.cache = cache
        ELSE result.kind = "return"

\* C28: a lookup that fails leaves the rate cache as it was: every failed
\* response (rejected fetch, status not OK, body not JSON, EGP rate missing,
\* not finite or not above zero) makes the call throw, and in the step in
\* which a call throws no entry is created, overwritten or removed, so that
\* an expired entry stays.
C28_FailureLeavesCache ==
  /\ []FailuresThrow
  /\ [][(Len(fxLog') > Len(fxLog) /\ fxLog'[Len(fxLog')].kind = "throw")
          => fxCache' = fxCache]_vars

\* a rate fetched, and a call six hours later whose fetch failed: the
\* expired entry is still the one of the first fetch
C28_Witness ==
  \E i, j \in LogIdx :
    /\ i < j /\ j = Len(fxLog)
    /\ Fetched(i, fxLog[i].currency)
    /\ fxLog[j].currency = fxLog[i].currency /\ fxLog[j].net /\ fxLog[j].kind = "throw"
    /\ fxLog[j].start - fxLog[i].start >= CacheTtl
    /\ fxCache[fxLog[i].currency] = Some([rate |-> fxLog[i].rate, at |-> fxLog[i].start])

----------------------------------------------------------------------------
(* Properties of updateInsightToggle (SpecToggle) and renameCategory       *)
(* (SpecRename)                                                            *)

RECURSIVE Negated(_, _)
Negated(value, n) == IF n = 0 THEN value ELSE ~Negated(value, n - 1)

TogglesOn(id) ==
  {i \in 1..Len(serverCalls.toggles) : serverCalls.toggles[i].id = id}

\* C29: when every updateInsightToggle call made on a row was made without
\* newValue and has returned, the row's flag is its original value negated
\* once for each call that returned success, however the calls interleave.
C29_TogglesCompose ==
  \A id \in ToggleIds :
    (\A i \in TogglesOn(id) :
        /\ serverCalls.toggles[i].newValue = None
        /\ serverCalls.toggles[i].pc = "done")
    => transactions[id].include_in_insights =
         Negated(InitialTransactions[id].include_in_insights,
                 Cardinality({i \in TogglesOn(id) :
                                serverCalls.toggles[i].result = Some("success")}))

References(oldName) ==
  \/ oldName \in settings.categories
  \/ \E k \in 1..Len(transactions) : transactions[k].category = oldName
  \/ \E m \in settings.merchant_settings : m.category_name = oldName

\* C30: once renameCategory has returned, with success no category row,
\* transaction or merchant setting references oldName, and with an error
\* the three tables are as the call found them.
C30_RenameAllOrNothing ==
  \A i \in 1..Len(serverCalls.renames) :
    LET call == serverCalls.renames[i]
    IN (i = Len(serverCalls.renames) /\ call.pc = "done")
       => /\ call.result = Some("success") => ~References(call.oldName)
          /\ call.result = Some("error")
               => /\ settings = call.before.settings
                  /\ transactions = call.before.transactions

====
